---------------------------- MODULE Spec2Model ----------------------------
(***************************************************************************)
(* A model of the weather-alerts service: the Store (db.rs), the fetch /   *)
(* evaluate / notify pipeline (main.rs fetch_and_alert), the Mailer        *)
(* (email.rs), the WeatherSource (weather.rs) and the registration         *)
(* handler (handlers.rs create_user).                                      *)
(*                                                                         *)
(* Strings are sequences of one-character strings so that LOWER(),         *)
(* to_lowercase(), contains() and ORDER BY are computed, not assumed.      *)
(* Temperatures are integers in tenths of a degree Celsius.                *)
(***************************************************************************)
EXTENDS Integers, Sequences, FiniteSets, TLC

(***************************************************************************)
(* Bounds of the model.                                                    *)
(***************************************************************************)
\* number of user rows in the tables a pipeline pass starts from
MaxUsers == 2
\* number of registration requests served concurrently
MaxRequests == 2
\* number of API requests served while a pass of the cron job runs
MaxServed == 1
\* number of ticks of the cron schedule
MaxTicks == 2

(***************************************************************************)
(* Strings.                                                                *)
(***************************************************************************)
UpperChars == <<"A","B","C","D","E","F","G","H","I","J","K","L","M",
                "N","O","P","Q","R","S","T","U","V","W","X","Y","Z">>
LowerChars == <<"a","b","c","d","e","f","g","h","i","j","k","l","m",
                "n","o","p","q","r","s","t","u","v","w","x","y","z">>

\* the characters in byte order, as a byte-wise collation compares them
ByteOrder == <<".", "@">> \o UpperChars \o LowerChars

CharCode(c) == CHOOSE i \in DOMAIN ByteOrder : ByteOrder[i] = c

LowerChar(c) ==
    IF \E i \in DOMAIN UpperChars : UpperChars[i] = c
    THEN LowerChars[CHOOSE i \in DOMAIN UpperChars : UpperChars[i] = c]
    ELSE c

UpperChar(c) ==
    IF \E i \in DOMAIN LowerChars : LowerChars[i] = c
    THEN UpperChars[CHOOSE i \in DOMAIN LowerChars : LowerChars[i] = c]
    ELSE c

\* SQL LOWER() and Rust str::to_lowercase()
ToLower(s) == [i \in DOMAIN s |-> LowerChar(s[i])]

\* SQL UPPER()
ToUpper(s) == [i \in DOMAIN s |-> UpperChar(s[i])]

\* Rust str::contains(pat)
Contains(s, pat) ==
    \E off \in 0..(Len(s) - Len(pat)) :
        \A i \in 1..Len(pat) : s[off + i] = pat[i]

\* strict "less than" of ORDER BY on a text column
RECURSIVE StrLess(_, _)
StrLess(a, b) ==
    IF b = <<>> THEN FALSE
    ELSE IF a = <<>> THEN TRUE
    ELSE IF a[1] # b[1] THEN CharCode(a[1]) < CharCode(b[1])
    ELSE StrLess(Tail(a), Tail(b))

\* all orders in which a query may return a set of rows
Perms(S) ==
    {s \in [1..Cardinality(S) -> S] : \A i, j \in DOMAIN s : i # j => s[i] # s[j]}

(***************************************************************************)
(* Values used by the model.                                               *)
(***************************************************************************)
Paris    == <<"P","a">>
parisLc  == <<"p","a">>
Rome     == <<"R","o">>
FR       == <<"F","R">>
US       == <<"U","S">>
frLc     == <<"f","r">>
usMixed  == <<"u","S">>

EmailA   == <<"a","@","x">>
EmailAUp == <<"A","@","x">>
EmailB   == <<"b","@","x">>

Clear        == <<"C","l","e","a","r">>
Rain         == <<"R","a","i","n">>
Thunderstorm == <<"T","h","u","n","d","e","r","s","t","o","r","m">>

\* a variable that holds no value yet
NULL == "NULL"

\* a nullable integer column / Option<i32>: SQL NULL / None, and Some(x)
NoTemp == <<>>

Some(x) == <<x>>

\* an AppError: its variant and, for Database, what sqlx reported
AppError(kind, cause) == [kind |-> kind, cause |-> cause]

NoError == AppError("none", "")

\* no answer of the weather provider is on its way
NoAnswer == [kind |-> "none"]


(***************************************************************************)
(* State.                                                                  *)
(***************************************************************************)
VARIABLES
    users,             \* table users: sequence of rows, row i has id i
    user_preferences,  \* table user_preferences: set of rows, UNIQUE(user_id)
    weather_data,      \* table weather_data: sequence of rows, oldest first
    alert_logs,        \* table alert_logs: sequence of rows, oldest first
    pc,                \* per pass: the await point fetch_and_alert is at
    cities,            \* per pass: the fan-out list of the pass
    idx,               \* per pass: position of city_info in cities
    weather,           \* per pass: the WeatherData of the current city
    users_q,           \* per pass: users of the current city still to visit
    alert_message,     \* per pass: the message being sent to the current user
    result,            \* per pass: what fetch_and_alert returned
    in_flight,         \* per pass: the provider's answer on its way to a fetch
    rpc,               \* per request: the await point create_user is at
    rreq,              \* per request: the CreateUserRequest body
    ruser,             \* per request: id of the row INSERT INTO users returned
    resp,              \* per request: HTTP status of the response
    rerr,              \* per request: AppError variant of an error response
    rbody,             \* per request: the JSON envelope of the response
    welcome,           \* per request: state of the spawned welcome-email task
    outbox,            \* messages the SMTP server accepted for relay
    events             \* calls made by the passes, in order, with outcomes

dbVars   == <<users, user_preferences, weather_data, alert_logs>>
passVars == <<pc, cities, idx, weather, users_q, alert_message, result,
             in_flight>>
regVars  == <<rpc, rreq, ruser, resp, rerr, rbody, welcome>>
vars     == <<dbVars, passVars, regVars, outbox, events>>

Passes   == {"cron", "manual"}
Requests == 1..MaxRequests

(***************************************************************************)
(* Store: the queries of db.rs as operators on the tables.                 *)
(***************************************************************************)
\* SELECT * FROM users WHERE email = $1
get_user_by_email(tbl, email) ==
    {i \in DOMAIN tbl : tbl[i].email = email}

\* SELECT * FROM users WHERE LOWER(city) = LOWER($1)
get_users_by_city(tbl, city) ==
    {i \in DOMAIN tbl : ToLower(tbl[i].city) = ToLower(city)}

\* the rows of SELECT DISTINCT city, country FROM users
DistinctCities(tbl) ==
    {[city |-> tbl[i].city, country |-> tbl[i].country] : i \in DOMAIN tbl}

\* ... ORDER BY city: every order of the distinct rows that is sorted by city
\* (rows with equal city come in an unspecified order)
get_all_user_cities(tbl) ==
    {s \in Perms(DistinctCities(tbl)) :
        \A i, j \in DOMAIN s : i < j => ~StrLess(s[j].city, s[i].city)}

\* SELECT * FROM weather_data WHERE LOWER(city) = LOWER($1)
\* ORDER BY fetched_at DESC LIMIT 1 (fetch_optional): the rows are kept
\* oldest first
get_latest_weather(tbl, city) ==
    LET found == {n \in DOMAIN tbl : ToLower(tbl[n].city) = ToLower(city)}
    IN  IF found = {} THEN {}
        ELSE {tbl[CHOOSE n \in found : \A m \in found : m <= n]}

\* SELECT * FROM user_preferences WHERE user_id = $1 (fetch_optional)
get_user_preferences(tbl, user_id) ==
    {r \in tbl : r.user_id = user_id}

\* the row INSERT INTO user_preferences (user_id) VALUES ($1) creates
DefaultPreferences(user_id) ==
    [user_id |-> user_id, min_temp |-> NoTemp, max_temp |-> NoTemp,
     alert_on_rain |-> FALSE, alert_on_snow |-> FALSE, alert_on_storm |-> FALSE]

\* faulty variant: the country is stored as it was submitted
NewUserRowVerbatim(id, req) ==
    [id |-> id, email |-> req.email, city |-> req.city,
     country |-> req.country]

\* the row INSERT INTO users (email, city, country) VALUES ($1, $2, UPPER($3))
\* creates
NewUserRow(id, req) ==
    [id |-> id, email |-> req.email, city |-> req.city,
     country |-> ToUpper(req.country)]

\* users.email is UNIQUE: the insert is rejected when the value is present
EmailUniqueViolation(tbl, email) ==
    \E i \in DOMAIN tbl : tbl[i].email = email

\* the row INSERT INTO alert_logs (user_id, alert_type, message) creates
AlertLogRow(user_id, alert_type, message) ==
    [user_id |-> user_id, alert_type |-> alert_type, message |-> message]

(***************************************************************************)
(* WeatherSource: get_weather maps the provider's answer.                  *)
(***************************************************************************)
Unknown       == <<"U","n","k","n","o","w","n">>
NoDescription == <<"N","o">>

\* faulty variant: the last element of the condition array is taken
WeatherFromLastCondition(r) ==
    [city        |-> r.name,
     country     |-> r.country,
     temperature |-> r.temp,
     conditions  |-> IF r.weather = <<>> THEN Unknown
                     ELSE r.weather[Len(r.weather)].main,
     description |-> IF r.weather = <<>> THEN NoDescription
                     ELSE r.weather[Len(r.weather)].description]

\* the WeatherData built from a 2xx response that parsed
WeatherFromResponse(r) ==
    [city        |-> r.name,
     country     |-> r.country,
     temperature |-> r.temp,
     conditions  |-> IF r.weather = <<>> THEN Unknown ELSE r.weather[1].main,
     description |-> IF r.weather = <<>> THEN NoDescription
                     ELSE r.weather[1].description]

\* Ok(WeatherData) or Err(AppError::WeatherApi) for what the transport did
get_weather(outcome) ==
    IF outcome.kind = "ok"
    THEN [ok |-> TRUE, data |-> WeatherFromResponse(outcome.response)]
    ELSE [ok |-> FALSE, err |-> "WeatherApi"]

(***************************************************************************)
(* AlertEvaluator: check_alert_conditions.                                 *)
(***************************************************************************)
None == [rule |-> "none"]

\* faulty variant: the categorical rules are tried before the bounds
check_categories_first(w, prefs) ==
    LET temp == w.temperature
        conditions == ToLower(w.conditions)
    IN  IF prefs.alert_on_rain /\ Contains(conditions, <<"r","a","i","n">>)
        THEN [rule |-> "rain", conditions |-> w.conditions]
        ELSE IF prefs.alert_on_snow /\ Contains(conditions, <<"s","n","o","w">>)
        THEN [rule |-> "snow", conditions |-> w.conditions]
        ELSE IF prefs.alert_on_storm
                /\ (Contains(conditions, <<"s","t","o","r","m">>)
                    \/ Contains(conditions, <<"t","h","u","n","d","e","r">>))
        THEN [rule |-> "storm", conditions |-> w.conditions]
        ELSE IF prefs.max_temp # NoTemp /\ temp > prefs.max_temp[1] * 10
        THEN [rule |-> "high", temp |-> temp, limit |-> prefs.max_temp[1]]
        ELSE IF prefs.min_temp # NoTemp /\ temp < prefs.min_temp[1] * 10
        THEN [rule |-> "low", temp |-> temp, limit |-> prefs.min_temp[1]]
        ELSE None

\* faulty variant: a bound that is not set counts as zero degrees
check_unset_bound_as_zero(w, prefs) ==
    LET temp == w.temperature
        conditions == ToLower(w.conditions)
        hi == IF prefs.max_temp = NoTemp THEN 0 ELSE prefs.max_temp[1]
        lo == IF prefs.min_temp = NoTemp THEN 0 ELSE prefs.min_temp[1]
    IN  IF temp > hi * 10
        THEN [rule |-> "high", temp |-> temp, limit |-> hi]
        ELSE IF temp < lo * 10
        THEN [rule |-> "low", temp |-> temp, limit |-> lo]
        ELSE IF prefs.alert_on_rain /\ Contains(conditions, <<"r","a","i","n">>)
        THEN [rule |-> "rain", conditions |-> w.conditions]
        ELSE IF prefs.alert_on_snow /\ Contains(conditions, <<"s","n","o","w">>)
        THEN [rule |-> "snow", conditions |-> w.conditions]
        ELSE IF prefs.alert_on_storm
                /\ (Contains(conditions, <<"s","t","o","r","m">>)
                    \/ Contains(conditions, <<"t","h","u","n","d","e","r">>))
        THEN [rule |-> "storm", conditions |-> w.conditions]
        ELSE None

check_alert_conditions(w, prefs) ==
    LET temp == w.temperature
        conditions == ToLower(w.conditions)
    IN  IF prefs.max_temp # NoTemp /\ temp > prefs.max_temp[1] * 10
        THEN [rule |-> "high", temp |-> temp, limit |-> prefs.max_temp[1]]
        ELSE IF prefs.min_temp # NoTemp /\ temp < prefs.min_temp[1] * 10
        THEN [rule |-> "low", temp |-> temp, limit |-> prefs.min_temp[1]]
        ELSE IF prefs.alert_on_rain /\ Contains(conditions, <<"r","a","i","n">>)
        THEN [rule |-> "rain", conditions |-> w.conditions]
        ELSE IF prefs.alert_on_snow /\ Contains(conditions, <<"s","n","o","w">>)
        THEN [rule |-> "snow", conditions |-> w.conditions]
        ELSE IF prefs.alert_on_storm
                /\ (Contains(conditions, <<"s","t","o","r","m">>)
                    \/ Contains(conditions, <<"t","h","u","n","d","e","r">>))
        THEN [rule |-> "storm", conditions |-> w.conditions]
        ELSE None

(***************************************************************************)
(* Mailer: send_email.                                                     *)
(***************************************************************************)
\* what can happen to one send: an address does not parse, the message is
\* not built, the blocking task is not joined, the server rejects or accepts
SendOutcomes == {"parse", "build", "join", "rejected", "accepted"}

\* faulty variant: a rejected or unsent message is reported as sent
send_email_swallows(outcome) == "Ok"

\* the value send_email returns for an outcome
send_email(outcome) ==
    IF outcome = "accepted" THEN "Ok" ELSE "Email"


(***************************************************************************)
(* The environment of a pass: what the weather provider may answer.        *)
(***************************************************************************)
Roma == <<"R","m">>

\* the provider names the place itself (field "name" of its answer): as it
\* was asked for, or by the name the provider knows it under
ProviderNames(city) ==
    IF ToLower(city) = ToLower(Rome) THEN {city, Roma} ELSE {city}

\* main.temp and the condition array of an answer
Readings ==
    { [temp |-> 200, weather |-> <<[main |-> Clear, description |-> <<"s","k","y">>]>>],
      [temp |-> 320, weather |-> <<[main |-> Rain,  description |-> <<"w","e","t">>]>>] }

ProviderResponses(c) ==
    { [name |-> n, country |-> c.country, temp |-> r.temp, weather |-> r.weather] :
        n \in ProviderNames(c.city), r \in Readings }

\* the request fails, the status is not 2xx, the body does not parse, or a
\* response is mapped
FetchOutcomes(c) ==
    { [kind |-> "transport"], [kind |-> "status"], [kind |-> "parse"] }
    \cup { [kind |-> "ok", response |-> r] : r \in ProviderResponses(c) }

(***************************************************************************)
(* Pipeline: fetch_and_alert, one action per await point.                  *)
(***************************************************************************)
\* a call of pass p at its current city: the operation, the user it is for
\* (0: none), whether it returned Ok, and the value passed or returned
Ev(p, op, user, ok, data) ==
    [pass |-> p, op |-> op, idx |-> idx[p], user |-> user, ok |-> ok,
     data |-> data]

\* faulty variant: the observation replaces the stored one of the same city
store_weather_data_upsert(tbl, w) ==
    IF \E n \in DOMAIN tbl : tbl[n].city = w.city
    THEN [n \in DOMAIN tbl |-> IF tbl[n].city = w.city THEN w ELSE tbl[n]]
    ELSE Append(tbl, w)

\* faulty variant: only the latest observation is kept
store_weather_data_latest(tbl, w) == <<w>>

\* INSERT INTO weather_data ... VALUES (...): a new row, whatever is stored
store_weather_data(tbl, w) == Append(tbl, w)

\* faulty variant: a user without a preferences row ends the pass
NoPrefsEndsPass(rest) == "done"

\* `if let Some(prefs)` fails: the user is passed over
NoPrefsPc(rest) == IF rest = <<>> THEN "sleep" ELSE "prefs"

\* `?` on a failed Store call: fetch_and_alert returns Err(Database)
StoreErrPc == "done"

\* faulty variant: the users are listed before the observation is stored
FetchOkSkipsStore == "list"

\* Ok arm of the get_weather match: the observation is stored first
FetchOkPc == "store"

\* faulty variant: a failed fetch is tried again
FetchErrRetries == "fetch"

\* faulty variant: a failed fetch ends the pass
FetchErrEndsPass == "done"

\* Err arm of the get_weather match: log, fall through to the sleep
FetchErrPc == "sleep"

\* faulty variant: after a failed send for the last user of a city the
\* pass goes on without the sleep
SendErrSkipsSleep(rest) == IF rest = <<>> THEN "fetch" ELSE "prefs"

\* faulty variant: a failed send ends the pass
SendErrEndsPass(rest) == "done"

\* Err arm of the send_weather_alert match: log, go on with the next user
SendErrPc(rest) == IF rest = <<>> THEN "sleep" ELSE "prefs"

\* faulty variant: the loop stays at the user it has just visited
RemainingKeepsUser(q) == q

\* `for user in users` takes the next user off the list
Remaining(q) == Tail(q)

\* faulty variant: the users left in the list are passed over
NextUserSkipsRest(rest) == "sleep"

\* end of the body of `for user in users`
NextUserPc(rest) == IF rest = <<>> THEN "sleep" ELSE "prefs"

\* `if let Some(prefs)`: a user without a row is passed over
PrefsFound(rows) == rows # {}

\* faulty variant: an email is sent whatever was evaluated
SendWhateverEvaluated(should_alert) == TRUE

\* `if let Some(alert_message) = should_alert`
IsSome(should_alert) == should_alert # None

\* faulty variant: the alert is logged whatever the send returned
LogWhateverSend(res) == TRUE

\* Ok arm of the send match: the alert is logged only here
LogAfterSend(res) == res = "Ok"

\* end of the body of `for city_info in cities`
NextCityPc(i, n) == IF i < n THEN "fetch" ELSE "done"

\* faulty variant: whatever ended the pass, it reports success
PassReturnsOk(p, pcv, res) ==
    /\ pc' = [pc EXCEPT ![p] = pcv]
    /\ result' = [result EXCEPT ![p] = "Ok"]

PassReturn(p, pcv, res) ==
    /\ pc' = [pc EXCEPT ![p] = pcv]
    /\ result' = [result EXCEPT ![p] = res]

\* let cities = db.get_all_user_cities().await?
PassStart(p) ==
    /\ pc[p] = "idle"
    /\ \/ /\ \E s \in get_all_user_cities(users) :
                /\ cities' = [cities EXCEPT ![p] = s]
                /\ IF s = <<>>
                   THEN PassReturn(p, "done", "Ok")
                   ELSE PassReturn(p, "fetch", result[p])
          /\ idx' = [idx EXCEPT ![p] = 1]
          /\ events' = Append(events, Ev(p, "cities", 0, TRUE, None))
       \/ /\ PassReturn(p, StoreErrPc, "Database")
          /\ events' = Append(events, Ev(p, "cities", 0, FALSE, None))
          /\ UNCHANGED <<cities, idx>>
    /\ UNCHANGED <<dbVars, weather, users_q, alert_message, in_flight, regVars, outbox>>

\* weather_client.get_weather(&city_info.city, &city_info.country).await
FetchMatch(p, r) ==
    /\ events' = Append(events, Ev(p, "fetch", 0, r.ok, IF r.ok THEN r.data ELSE None))
    /\ IF r.ok
       THEN /\ weather' = [weather EXCEPT ![p] = r.data]
            /\ pc' = [pc EXCEPT ![p] = FetchOkPc]
       ELSE /\ pc' = [pc EXCEPT ![p] = FetchErrPc]
            /\ UNCHANGED weather

Fetch(p) ==
    /\ pc[p] = "fetch"
    /\ \E o \in FetchOutcomes(cities[p][idx[p]]) : FetchMatch(p, get_weather(o))
    /\ UNCHANGED <<dbVars, cities, idx, users_q, alert_message, result,
                   in_flight, regVars, outbox>>

\* db.store_weather_data(&weather).await?
StoreWeather(p) ==
    /\ pc[p] = "store"
    /\ \/ /\ weather_data' = store_weather_data(weather_data, weather[p])
          /\ pc' = [pc EXCEPT ![p] = "list"]
          /\ events' = Append(events, Ev(p, "store", 0, TRUE, weather[p]))
          /\ UNCHANGED result
       \/ /\ PassReturn(p, StoreErrPc, "Database")
          /\ events' = Append(events, Ev(p, "store", 0, FALSE, None))
          /\ UNCHANGED weather_data
    /\ UNCHANGED <<users, user_preferences, alert_logs, cities, idx, weather,
                   users_q, alert_message, in_flight, regVars, outbox>>

\* let users = db.get_users_by_city(&city_info.city).await?
ListUsers(p) ==
    /\ pc[p] = "list"
    /\ \/ /\ \E q \in Perms(get_users_by_city(users, cities[p][idx[p]].city)) :
                /\ users_q' = [users_q EXCEPT ![p] = [i \in DOMAIN q |-> users[q[i]]]]
                /\ pc' = [pc EXCEPT ![p] = NextUserPc(q)]
          /\ events' = Append(events, Ev(p, "list", 0, TRUE, None))
          /\ UNCHANGED result
       \/ /\ PassReturn(p, StoreErrPc, "Database")
          /\ events' = Append(events, Ev(p, "list", 0, FALSE, None))
          /\ UNCHANGED users_q
    /\ UNCHANGED <<dbVars, cities, idx, weather, alert_message, in_flight, regVars, outbox>>

\* db.get_user_preferences(user.id).await? and check_alert_conditions
GetPrefs(p) ==
    /\ pc[p] = "prefs"
    /\ LET user == Head(users_q[p])
           rest == Remaining(users_q[p])
           rows == get_user_preferences(user_preferences, user.id)
       IN  \/ /\ PrefsFound(rows)
              /\ LET should_alert ==
                         check_alert_conditions(weather[p], CHOOSE r \in rows : TRUE)
                 IN  /\ events' = Append(events, Ev(p, "prefs", user.id, TRUE, should_alert))
                     /\ IF IsSome(should_alert)
                        THEN /\ alert_message' =
                                    [alert_message EXCEPT ![p] = should_alert]
                             /\ pc' = [pc EXCEPT ![p] = "send"]
                             /\ UNCHANGED users_q
                        ELSE /\ users_q' = [users_q EXCEPT ![p] = rest]
                             /\ pc' = [pc EXCEPT ![p] = NextUserPc(rest)]
                             /\ UNCHANGED alert_message
              /\ UNCHANGED result
           \/ /\ ~PrefsFound(rows)
              /\ events' = Append(events, Ev(p, "noprefs", user.id, TRUE, None))
              /\ users_q' = [users_q EXCEPT ![p] = rest]
              /\ pc' = [pc EXCEPT ![p] = NoPrefsPc(rest)]
              /\ UNCHANGED <<alert_message, result>>
           \/ /\ PassReturn(p, StoreErrPc, "Database")
              /\ events' = Append(events, Ev(p, "prefs", user.id, FALSE, None))
              /\ UNCHANGED <<users_q, alert_message>>
    /\ UNCHANGED <<dbVars, cities, idx, weather, in_flight, regVars, outbox>>

\* email_client.send_weather_alert(&user.email, &city_info.city, &alert_message)
SendAlert(p) ==
    /\ pc[p] = "send"
    /\ LET user == Head(users_q[p])
           rest == Remaining(users_q[p])
       IN  \E o \in SendOutcomes :
              LET res == send_email(o) IN
              /\ events' = Append(events, Ev(p, "send", user.id, res = "Ok", alert_message[p]))
              /\ outbox' = IF o = "accepted"
                           THEN Append(outbox, [kind |-> "alert", to |-> user.email,
                                                city |-> cities[p][idx[p]].city,
                                                message |-> alert_message[p]])
                           ELSE outbox
              /\ IF LogAfterSend(res)
                 THEN /\ pc' = [pc EXCEPT ![p] = "log"]
                      /\ UNCHANGED users_q
                 ELSE /\ users_q' = [users_q EXCEPT ![p] = rest]
                      /\ pc' = [pc EXCEPT ![p] = SendErrPc(rest)]
    /\ UNCHANGED <<dbVars, cities, idx, weather, alert_message, result, in_flight, regVars>>

\* db.log_alert(user.id, "temperature", &alert_message).await?
LogAlert(p) ==
    /\ pc[p] = "log"
    /\ LET user == Head(users_q[p])
           rest == Remaining(users_q[p])
       IN  \/ /\ alert_logs' = Append(alert_logs,
                     AlertLogRow(user.id, "temperature", alert_message[p]))
              /\ events' = Append(events, Ev(p, "log", user.id, TRUE, alert_message[p]))
              /\ users_q' = [users_q EXCEPT ![p] = rest]
              /\ pc' = [pc EXCEPT ![p] = NextUserPc(rest)]
              /\ UNCHANGED result
           \/ /\ PassReturn(p, StoreErrPc, "Database")
              /\ events' = Append(events, Ev(p, "log", user.id, FALSE, None))
              /\ UNCHANGED <<alert_logs, users_q>>
    /\ UNCHANGED <<users, user_preferences, weather_data, cities, idx, weather,
                   alert_message, in_flight, regVars, outbox>>

\* tokio::time::sleep(1s), then the next city_info or Ok(())
Sleep(p) ==
    /\ pc[p] = "sleep"
    /\ events' = Append(events, Ev(p, "sleep", 0, TRUE, None))
    /\ LET next == NextCityPc(idx[p], Len(cities[p])) IN
       IF next = "done"
       THEN /\ PassReturn(p, "done", "Ok")
            /\ UNCHANGED idx
       ELSE /\ PassReturn(p, next, result[p])
            /\ idx' = [idx EXCEPT ![p] = idx[p] + 1]
    /\ UNCHANGED <<dbVars, cities, weather, users_q, alert_message, in_flight, regVars, outbox>>


(***************************************************************************)
(* Initial states.                                                         *)
(***************************************************************************)
InitPasses ==
    /\ pc = [p \in Passes |-> "idle"]
    /\ cities = [p \in Passes |-> <<>>]
    /\ idx = [p \in Passes |-> 0]
    /\ weather = [p \in Passes |-> NULL]
    /\ users_q = [p \in Passes |-> <<>>]
    /\ alert_message = [p \in Passes |-> None]
    /\ result = [p \in Passes |-> "none"]
    /\ in_flight = [p \in Passes |-> NoAnswer]

InitRequests ==
    /\ rpc = [r \in Requests |-> "idle"]
    /\ rreq = [r \in Requests |-> NULL]
    /\ ruser = [r \in Requests |-> 0]
    /\ resp = [r \in Requests |-> 0]
    /\ rerr = [r \in Requests |-> NoError]
    /\ rbody = [r \in Requests |-> NULL]
    /\ welcome = [r \in Requests |-> "none"]

\* the (city, country) pairs users of the pipeline model live in: two
\* spellings of one city, and another city
HomePairs ==
    << [city |-> Paris,   country |-> FR], [city |-> parisLc, country |-> FR],
       [city |-> Rome,    country |-> FR] >>

\* an address per row, all different
SlotEmail(i) == <<LowerChars[i], "@", "x">>

\* preferences a user can have reached through PUT /preferences
HotOrRain(user_id) ==
    [DefaultPreferences(user_id) EXCEPT !.max_temp = Some(30), !.alert_on_rain = TRUE]

\* what a user's preferences can be: no row (its insert failed), the
\* defaults, or an upper bound with the rain flag
PreferenceKinds(user_id) ==
    << {}, {DefaultPreferences(user_id)}, {HotOrRain(user_id)} >>

\* the kinds of user: a pair to live in and a kind of preferences
UserKinds == (DOMAIN HomePairs) \X (DOMAIN PreferenceKinds(1))

KindRank(k) == k[1] * Len(PreferenceKinds(1)) + k[2]

\* up to MaxUsers users of any kinds; ids are opaque and no query orders by
\* them, so the users are numbered in the order of their kinds
Populations ==
    UNION { { g \in [1..n -> UserKinds] :
                \A i, j \in 1..n : i < j => KindRank(g[i]) <= KindRank(g[j]) } :
            n \in 0..MaxUsers }

\* tables create_user can leave behind: one row per accepted registration,
\* country in upper case, and a preferences row unless its insert failed
InitPipeline ==
    /\ \E g \in Populations :
          /\ users = [i \in DOMAIN g |->
                        NewUserRow(i, [email   |-> SlotEmail(i),
                                       city    |-> HomePairs[g[i][1]].city,
                                       country |-> HomePairs[g[i][1]].country])]
          /\ user_preferences =
                UNION { PreferenceKinds(i)[g[i][2]] : i \in DOMAIN g }
    /\ weather_data = <<>>
    /\ alert_logs = <<>>
    /\ InitPasses
    /\ InitRequests
    /\ outbox = <<>>
    /\ events = <<>>

(***************************************************************************)
(* SpecPipeline: one pass (the cron callback or the CLI fetch-weather)     *)
(* over tables left by registrations.                                      *)
(***************************************************************************)
NextPipeline ==
    \/ PassStart("cron")
    \/ Fetch("cron")
    \/ StoreWeather("cron")
    \/ ListUsers("cron")
    \/ GetPrefs("cron")
    \/ SendAlert("cron")
    \/ LogAlert("cron")
    \/ Sleep("cron")

SpecPipeline == InitPipeline /\ [][NextPipeline]_vars


(***************************************************************************)
(* SpecEvaluate: check_alert_conditions applied to one observation and one *)
(* preferences row.                                                        *)
(***************************************************************************)
Snow == <<"S","n","o","w">>
RainUp == <<"R","A","I","N">>
Storm == <<"S","t","o","r","m">>
Thunder == <<"T","h","u","n","d","e","r">>

\* WeatherData values get_weather can return for a city: temperatures in
\* tenths of a degree around the bounds below, and condition categories
Observations ==
    { [city |-> Paris, country |-> FR, temperature |-> t, conditions |-> c,
       description |-> c] :
        t \in {-50, 99, 100, 101, 299, 300, 301, 320, 400},
        c \in {Clear, Rain, RainUp, Snow, Storm, Thunder, Thunderstorm} }

\* preferences rows: each bound unset or set (also min above max), each flag
PreferenceInputs ==
    { [user_id |-> 1, min_temp |-> lo, max_temp |-> hi, alert_on_rain |-> r,
       alert_on_snow |-> s, alert_on_storm |-> t] :
        lo \in {NoTemp, Some(10), Some(35)}, hi \in {NoTemp, Some(30)},
        r \in BOOLEAN, s \in BOOLEAN, t \in BOOLEAN }

\* a pass holds an observation and the preferences row of a user
InitEvaluate ==
    /\ users = << NewUserRow(1, [email |-> EmailA, city |-> Paris, country |-> FR]) >>
    /\ \E prefs \in PreferenceInputs : user_preferences = {prefs}
    /\ weather_data = <<>>
    /\ alert_logs = <<>>
    /\ pc = [p \in Passes |-> IF p = "cron" THEN "evaluate" ELSE "idle"]
    /\ cities = [p \in Passes |-> <<>>]
    /\ idx = [p \in Passes |-> 0]
    /\ \E w \in Observations :
          weather = [p \in Passes |-> IF p = "cron" THEN w ELSE NULL]
    /\ users_q = [p \in Passes |-> <<>>]
    /\ alert_message = [p \in Passes |-> None]
    /\ result = [p \in Passes |-> "none"]
    /\ in_flight = [p \in Passes |-> NoAnswer]
    /\ InitRequests
    /\ outbox = <<>>
    /\ events = <<>>

\* let should_alert = check_alert_conditions(&weather, &prefs)
Evaluate(p) ==
    /\ pc[p] = "evaluate"
    /\ alert_message' =
          [alert_message EXCEPT ![p] =
              check_alert_conditions(weather[p], CHOOSE r \in user_preferences : TRUE)]
    /\ pc' = [pc EXCEPT ![p] = "evaluated"]
    /\ UNCHANGED <<dbVars, cities, idx, weather, users_q, result, in_flight, regVars,
                   outbox, events>>

NextEvaluate == Evaluate("cron")

SpecEvaluate == InitEvaluate /\ [][NextEvaluate]_vars


(***************************************************************************)
(* API: error mapping (error.rs) and POST /api/users (handlers.rs).        *)
(***************************************************************************)
\* faulty variant: every failure of the Store is answered as a conflict
error_response_store_conflict(err) ==
    CASE err.kind = "NotFound"   -> 404
      [] err.kind = "Conflict"   -> 409
      [] err.kind = "Database"   -> 409
      [] err.kind = "Validation" -> 400
      [] OTHER                   -> 500

\* AppError::error_response: the status of an error variant
error_response(err) ==
    CASE err.kind = "NotFound"   -> 404
      [] err.kind = "Conflict"   -> 409
      [] err.kind = "Validation" -> 400
      [] OTHER                   -> 500

\* CreateUserRequest::validate: a well-formed address, a city of 1..100
\* characters, a country of two characters
ValidEmail(e) ==
    \E i \in DOMAIN e : e[i] = "@" /\ 1 < i /\ i < Len(e)

validate(req) ==
    /\ ValidEmail(req.email)
    /\ Len(req.city) \in 1..100
    /\ Len(req.country) = 2

\* the request bodies the model submits
RegistrationInputs ==
    { [email |-> EmailA,   city |-> Paris,   country |-> FR],
      [email |-> EmailAUp, city |-> parisLc, country |-> frLc],
      [email |-> EmailB,   city |-> Rome,    country |-> usMixed],
      [email |-> <<"a">>,  city |-> Paris,   country |-> FR],
      [email |-> EmailB,   city |-> <<>>,    country |-> FR] }

\* ApiResponse::success(data, message): the envelope of a payload
ApiResponseSuccess == [success |-> TRUE, fields |-> {"data", "message"}]

\* ApiResponse::error(message): the envelope of an error message
ApiResponseError == [success |-> FALSE, fields |-> {"error"}]

\* the body AppError::error_response builds:
\* json!({"success": false, "error": message})
ErrorJson == [success |-> FALSE, fields |-> {"error"}]

\* HttpResponse::build(status).json(body)
Reply(r, status, err, body) ==
    /\ rpc' = [rpc EXCEPT ![r] = "done"]
    /\ resp' = [resp EXCEPT ![r] = status]
    /\ rerr' = [rerr EXCEPT ![r] = err]
    /\ rbody' = [rbody EXCEPT ![r] = body]

\* the Ok arm of a handler that wraps its payload in ApiResponse::success
Respond(r, status, err) == Reply(r, status, err, ApiResponseSuccess)

\* the error a failed Store call becomes through From<sqlx::Error>
FromSqlxError(cause) == AppError("Database", cause)

\* the Err arm of the handler: the response is error_response of the error
Fail(r, err) == Reply(r, error_response(err), err, ErrorJson)

\* req.validate().map_err(AppError::Validation)?
RegValidate(r) ==
    /\ rpc[r] = "idle"
    /\ \E req \in RegistrationInputs :
          /\ rreq' = [rreq EXCEPT ![r] = req]
          /\ IF validate(req)
             THEN /\ rpc' = [rpc EXCEPT ![r] = "check"]
                  /\ UNCHANGED <<resp, rerr, rbody>>
             ELSE Fail(r, AppError("Validation", ""))
    /\ UNCHANGED <<dbVars, passVars, ruser, welcome, outbox, events>>

\* if let Some(_) = state.db.get_user_by_email(&req.email).await?
RegCheck(r) ==
    /\ rpc[r] = "check"
    /\ \/ /\ get_user_by_email(users, rreq[r].email) # {}
          /\ Fail(r, AppError("Conflict", ""))
       \/ /\ get_user_by_email(users, rreq[r].email) = {}
          /\ rpc' = [rpc EXCEPT ![r] = "insert_user"]
          /\ UNCHANGED <<resp, rerr, rbody>>
       \/ Fail(r, FromSqlxError("io"))
    /\ UNCHANGED <<dbVars, passVars, rreq, ruser, welcome, outbox, events>>

\* Database::create_user, first statement: INSERT INTO users ... .await?
RegInsertUser(r) ==
    /\ rpc[r] = "insert_user"
    /\ \/ /\ ~EmailUniqueViolation(users, rreq[r].email)
          /\ users' = Append(users, NewUserRow(Len(users) + 1, rreq[r]))
          /\ ruser' = [ruser EXCEPT ![r] = Len(users) + 1]
          /\ rpc' = [rpc EXCEPT ![r] = "insert_prefs"]
          /\ UNCHANGED <<resp, rerr, rbody>>
       \/ /\ EmailUniqueViolation(users, rreq[r].email)
          /\ Fail(r, FromSqlxError("unique_violation"))
          /\ UNCHANGED <<users, ruser>>
       \/ /\ Fail(r, FromSqlxError("io"))
          /\ UNCHANGED <<users, ruser>>
    /\ UNCHANGED <<user_preferences, weather_data, alert_logs, passVars, rreq,
                   welcome, outbox, events>>

\* Database::create_user, second statement: INSERT INTO user_preferences
\* ... .await?; then the handler spawns the welcome email and answers 201
RegInsertPrefs(r) ==
    /\ rpc[r] = "insert_prefs"
    /\ \/ /\ user_preferences' =
                 user_preferences \cup {DefaultPreferences(ruser[r])}
          /\ Respond(r, 201, NoError)
          /\ welcome' = [welcome EXCEPT ![r] = "spawned"]
       \/ /\ Fail(r, FromSqlxError("io"))
          /\ UNCHANGED <<user_preferences, welcome>>
    /\ UNCHANGED <<users, weather_data, alert_logs, passVars, rreq, ruser,
                   outbox, events>>

\* faulty variant: a welcome email that is not sent fails the request
WelcomeFailsRequest(r, res) ==
    IF res = "Ok"
    THEN UNCHANGED <<rpc, resp, rerr, rbody>>
    ELSE Fail(r, AppError("Email", ""))

\* `if let Err(e) = .. { log::error!(..) }`: the task logs the error; the
\* response of the request is not its business
WelcomeLogged(r, res) == UNCHANGED <<rpc, resp, rerr, rbody>>

\* the spawned task: email_client.send_welcome_email(&user_email, &city)
WelcomeTask(r) ==
    /\ welcome[r] = "spawned"
    /\ \E o \in SendOutcomes :
          /\ WelcomeLogged(r, send_email(o))
          /\ welcome' = [welcome EXCEPT ![r] =
                            IF send_email(o) = "Ok" THEN "sent" ELSE "failed"]
          /\ outbox' = IF o = "accepted"
                       THEN Append(outbox, [kind |-> "welcome",
                                            to |-> users[ruser[r]].email,
                                            city |-> users[ruser[r]].city,
                                            message |-> None])
                       ELSE outbox
    /\ UNCHANGED <<dbVars, passVars, rreq, ruser, events>>

(***************************************************************************)
(* SpecRegister: registration requests served concurrently on an empty     *)
(* database.                                                               *)
(***************************************************************************)
InitRegister ==
    /\ users = <<>>
    /\ user_preferences = {}
    /\ weather_data = <<>>
    /\ alert_logs = <<>>
    /\ InitPasses
    /\ InitRequests
    /\ outbox = <<>>
    /\ events = <<>>

NextRegister ==
    \E r \in Requests :
        \/ RegValidate(r)
        \/ RegCheck(r)
        \/ RegInsertUser(r)
        \/ RegInsertPrefs(r)
        \/ WelcomeTask(r)

SpecRegister == InitRegister /\ [][NextRegister]_vars


(***************************************************************************)
(* API: PUT /api/users/{id}/preferences (handlers.rs, db.rs).              *)
(***************************************************************************)
\* a field of UpdatePreferencesRequest: absent (or null), or a value
Absent == <<>>

\* faulty variant: a bound the request leaves out is cleared
coalesce_temp_clears(new, old) == new

\* COALESCE($n, column) on a nullable column
coalesce_temp(new, old) == IF new # Absent THEN new ELSE old

\* COALESCE($n, column) on a NOT NULL column
coalesce_flag(new, old) == IF new # Absent THEN new[1] ELSE old

\* the SET clause of update_user_preferences applied to one row
UpdatedRow(row, req) ==
    [user_id        |-> row.user_id,
     min_temp       |-> coalesce_temp(req.min_temp, row.min_temp),
     max_temp       |-> coalesce_temp(req.max_temp, row.max_temp),
     alert_on_rain  |-> coalesce_flag(req.alert_on_rain, row.alert_on_rain),
     alert_on_snow  |-> coalesce_flag(req.alert_on_snow, row.alert_on_snow),
     alert_on_storm |-> coalesce_flag(req.alert_on_storm, row.alert_on_storm)]

\* UPDATE user_preferences SET ... WHERE user_id = $1: the table afterwards
update_user_preferences(tbl, user_id, req) ==
    { IF row.user_id = user_id THEN UpdatedRow(row, req) ELSE row : row \in tbl }

\* UpdatePreferencesRequest::validate: when the request carries both
\* bounds, the upper is not below the lower
validate_preferences(req) ==
    (req.min_temp # Absent /\ req.max_temp # Absent)
        => req.max_temp[1] >= req.min_temp[1]

Patch(lo, hi, rain, snow, storm) ==
    [min_temp |-> lo, max_temp |-> hi, alert_on_rain |-> rain,
     alert_on_snow |-> snow, alert_on_storm |-> storm]

\* the request bodies the model submits
PatchInputs ==
    { Patch(Some(5), Some(30), <<TRUE>>, Absent, Absent),
      Patch(Absent, Some(30), Absent, Absent, Absent),
      Patch(Some(40), Absent, Absent, Absent, Absent),
      Patch(Absent, Absent, Absent, <<TRUE>>, Absent),
      Patch(Absent, Absent, <<FALSE>>, Absent, <<TRUE>>),
      Patch(Some(40), Some(30), Absent, Absent, Absent) }

\* the ids a request can name: the registered users and one nobody has
PatchTargets == 1..(Len(users) + 1)

\* req.validate().map_err(AppError::Validation)?
PrefValidate(r) ==
    /\ rpc[r] = "idle"
    /\ \E id \in PatchTargets : \E req \in PatchInputs :
          /\ rreq' = [rreq EXCEPT ![r] = req]
          /\ ruser' = [ruser EXCEPT ![r] = id]
          /\ IF validate_preferences(req)
             THEN /\ rpc' = [rpc EXCEPT ![r] = "update"]
                  /\ UNCHANGED <<resp, rerr, rbody>>
             ELSE Fail(r, AppError("Validation", ""))
    /\ UNCHANGED <<dbVars, passVars, welcome, outbox, events>>

\* state.db.update_user_preferences(*user_id, &req).await? and the 200
PrefUpdate(r) ==
    /\ rpc[r] = "update"
    /\ \/ /\ get_user_preferences(user_preferences, ruser[r]) # {}
          /\ user_preferences' =
                update_user_preferences(user_preferences, ruser[r], rreq[r])
          /\ Respond(r, 200, NoError)
       \/ /\ get_user_preferences(user_preferences, ruser[r]) = {}
          /\ Fail(r, FromSqlxError("RowNotFound"))
          /\ UNCHANGED user_preferences
       \/ /\ Fail(r, FromSqlxError("io"))
          /\ UNCHANGED user_preferences
    /\ UNCHANGED <<users, weather_data, alert_logs, passVars, rreq, ruser,
                   welcome, outbox, events>>

\* the tables after MaxUsers registrations: a user and its default row each
InitPreferences ==
    /\ users = [i \in 1..MaxUsers |->
                  NewUserRow(i, [email |-> SlotEmail(i), city |-> Paris,
                                 country |-> FR])]
    /\ user_preferences = { DefaultPreferences(i) : i \in 1..MaxUsers }
    /\ weather_data = <<>>
    /\ alert_logs = <<>>
    /\ InitPasses
    /\ InitRequests
    /\ outbox = <<>>
    /\ events = <<>>

NextPreferences ==
    \E r \in Requests :
        \/ PrefValidate(r)
        \/ PrefUpdate(r)

SpecPreferences == InitPreferences /\ [][NextPreferences]_vars


(***************************************************************************)
(* API: POST /api/weather/fetch (handlers.rs), and SpecTrigger: the pass   *)
(* it starts next to the pass of the cron job.                             *)
(***************************************************************************)
\* faulty variant: the runtime polls a spawned task on another thread
\* while the handler that spawned it is still running
PolledAnywhere == TRUE

\* #[actix_web::main]: the handler and the task it spawns share the one
\* thread of the worker's runtime, so the task is first polled when no
\* handler is between its tokio::spawn and its return
WorkerYielded == \A r \in Requests : rpc[r] # "spawned"

\* tokio::spawn(async move { fetch_and_alert(..).await ... }): the task
\* exists and has not been polled; its JoinHandle is dropped
TriggerSpawn(r) ==
    /\ rpc[r] = "idle"
    /\ pc["manual"] = "unspawned"
    /\ pc' = [pc EXCEPT !["manual"] = "idle"]
    /\ rpc' = [rpc EXCEPT ![r] = "spawned"]
    /\ UNCHANGED <<in_flight, dbVars, cities, idx, weather, users_q, alert_message, result,
                   rreq, ruser, resp, rerr, rbody, welcome, outbox, events>>

\* Ok(HttpResponse::Accepted().json(..))
TriggerRespond(r) ==
    /\ rpc[r] = "spawned"
    /\ Reply(r, 202, NoError, ApiResponseError)
    /\ UNCHANGED <<dbVars, passVars, rreq, ruser, welcome, outbox, events>>

\* the first poll of the spawned task
TriggeredStart == WorkerYielded /\ PassStart("manual")

\* one registered user with an upper bound and the rain flag; the cron job
\* is scheduled, the endpoint has not been called
InitTrigger ==
    /\ users = << NewUserRow(1, [email |-> EmailA, city |-> Paris, country |-> FR]) >>
    /\ user_preferences = {HotOrRain(1)}
    /\ weather_data = <<>>
    /\ alert_logs = <<>>
    /\ pc = [p \in Passes |-> IF p = "manual" THEN "unspawned" ELSE "idle"]
    /\ cities = [p \in Passes |-> <<>>]
    /\ idx = [p \in Passes |-> 0]
    /\ weather = [p \in Passes |-> NULL]
    /\ users_q = [p \in Passes |-> <<>>]
    /\ alert_message = [p \in Passes |-> None]
    /\ result = [p \in Passes |-> "none"]
    /\ in_flight = [p \in Passes |-> NoAnswer]
    /\ InitRequests
    /\ outbox = <<>>
    /\ events = <<>>

NextTrigger ==
    \/ \E r \in Requests : TriggerSpawn(r) \/ TriggerRespond(r)
    \/ PassStart("cron")
    \/ TriggeredStart
    \/ \E p \in Passes :
          \/ Fetch(p)
          \/ StoreWeather(p)
          \/ ListUsers(p)
          \/ GetPrefs(p)
          \/ SendAlert(p)
          \/ LogAlert(p)
          \/ Sleep(p)

SpecTrigger == InitTrigger /\ [][NextTrigger]_vars


(***************************************************************************)
(* SpecServe: the API serving requests while the pass of the cron job is   *)
(* under way.  The pass a manual trigger spawns is followed in SpecTrigger.*)
(***************************************************************************)
\* faulty variant: the callback runs on the context that serves the
\* requests, which serves none until the pass is over
ApiWaitsForPass == pc["cron"] \in {"idle", "done"}

\* the callback is a task of the scheduler (Job::new_async, Box::pin(async
\* move ..)) and every call of fetch_and_alert is awaited, the SMTP send
\* through spawn_blocking; the HttpServer workers serve on threads of their
\* own
ApiContextFree == TRUE

\* the requests that arrive while the pass is under way, numbered in the
\* order of their arrival
Served == 1..MaxServed

Arrived(r) == IF r = 1 THEN TRUE ELSE rpc[r - 1] # "idle"

\* a step of the handler request r is in
Serve(r) ==
    /\ ApiContextFree
    /\ Arrived(r)
    /\ \/ RegValidate(r)
       \/ RegCheck(r)
       \/ RegInsertUser(r)
       \/ RegInsertPrefs(r)
       \/ PrefValidate(r)
       \/ PrefUpdate(r)
       \/ TriggerSpawn(r)
       \/ TriggerRespond(r)

NextServe ==
    \/ \E r \in Served : Serve(r) \/ WelcomeTask(r)
    \/ PassStart("cron")
    \/ Fetch("cron")
    \/ StoreWeather("cron")
    \/ ListUsers("cron")
    \/ GetPrefs("cron")
    \/ SendAlert("cron")
    \/ LogAlert("cron")
    \/ Sleep("cron")

SpecServe == InitTrigger /\ [][NextServe]_vars


(***************************************************************************)
(* Reading the record of calls.                                            *)
(***************************************************************************)
EvOf(p, op) ==
    {k \in DOMAIN events : events[k].pass = p /\ events[k].op = op}

\* the calls of pass p for user u at city i
EvAt(p, op, i, u) ==
    {k \in EvOf(p, op) : events[k].idx = i /\ events[k].user = u}

Fetched(p, i)     == EvAt(p, "fetch", i, 0) # {}
FetchOk(p, i)     == \E k \in EvAt(p, "fetch", i, 0) : events[k].ok
FetchFailed(p, i) == \E k \in EvAt(p, "fetch", i, 0) : ~events[k].ok

\* the WeatherData get_weather returned for city i
Observation(p, i) ==
    events[CHOOSE k \in EvAt(p, "fetch", i, 0) : events[k].ok].data

\* user u was reached by the loop over the users of city i
Visited(p, i, u) == EvAt(p, "prefs", i, u) \cup EvAt(p, "noprefs", i, u) # {}

Entries(p) == 1..Len(cities[p])

\* the pass is over and no Store call ended it
CompletedNoStoreFailure(p) == pc[p] = "done" /\ result[p] # "Database"

\* the users ListUsersInCity gives for the city of entry i
UsersOfEntry(p, i) == get_users_by_city(users, cities[p][i].city)

\* every user of city i was reached and every later city was fetched
RestProcessed(p, i) ==
    /\ \A u \in UsersOfEntry(p, i) : Visited(p, i, u)
    /\ \A j \in Entries(p) : j > i => Fetched(p, j)

\* the SendAlert attempts of pass p for user u: at which city, which message
SendAttempts(p, u) ==
    { [idx |-> events[k].idx, message |-> events[k].data] :
        k \in {k \in EvOf(p, "send") : events[k].user = u} }

\* what evaluate gives for user u on the observation of city i of pass p
Evaluated(p, i, u) ==
    LET rows == get_user_preferences(user_preferences, u)
    IN  IF rows = {} THEN None
        ELSE check_alert_conditions(Observation(p, i), CHOOSE r \in rows : TRUE)

\* the attempts owed to user u by the entries in E: one per entry of the
\* user's city that was fetched and whose observation matches the preferences
AttemptsOwed(p, u, E) ==
    { [idx |-> i, message |-> Evaluated(p, i, u)] :
        i \in {i \in E : /\ FetchOk(p, i)
                         /\ u \in UsersOfEntry(p, i)
                         /\ Evaluated(p, i, u) # None} }

(***************************************************************************)
(* C1. A failed fetch does not end the pass.                               *)
(***************************************************************************)
\* C1: in a pass that no Store failure ended, when the fetch of city a
\* failed, every later city of the fan-out list was fetched, and every user
\* of another city got exactly the SendAlert attempts owed by the list
\* without entry a: one per fetched entry of the user's city whose
\* observation matches the user's preferences.
C1_FetchFailureIsolated ==
    \A p \in Passes : \A a \in Entries(p) :
        (CompletedNoStoreFailure(p) /\ FetchFailed(p, a)) =>
            /\ \A i \in Entries(p) : i > a => Fetched(p, i)
            /\ \A u \in DOMAIN users :
                  u \notin UsersOfEntry(p, a) =>
                      SendAttempts(p, u) = AttemptsOwed(p, u, Entries(p) \ {a})

\* a pass is over, the fetch of a city failed, and a user of a later city
\* got a SendAlert attempt
C1_Witness ==
    \E p \in Passes : \E a, b \in Entries(p) :
        /\ pc[p] = "done" /\ result[p] = "Ok"
        /\ a < b /\ FetchFailed(p, a) /\ FetchOk(p, b)
        /\ \E u \in UsersOfEntry(p, b) \ UsersOfEntry(p, a) :
              EvAt(p, "send", b, u) # {}

(***************************************************************************)
(* C2. A failed PutObservation.                                            *)
(***************************************************************************)
\* C2: when store_weather_data failed for city i of a pass, no user of that
\* city is evaluated or emailed, and once the pass is over the next city of
\* the list has been fetched.
C2_StoreFailureSkipsCityOnly ==
    \A p \in Passes : \A k \in EvOf(p, "store") :
        ~events[k].ok =>
            /\ \A u \in DOMAIN users :
                  /\ ~Visited(p, events[k].idx, u)
                  /\ EvAt(p, "send", events[k].idx, u) = {}
            /\ (pc[p] = "done" /\ events[k].idx < Len(cities[p]))
                  => Fetched(p, events[k].idx + 1)

(***************************************************************************)
(* C3. A failed SendAlert.                                                 *)
(***************************************************************************)
\* C3: when SendAlert failed for a user at a city, LogAlert is not called
\* for that user at that city and the alert log holds as many rows as
\* LogAlert calls succeeded; and in a pass that no Store failure ended, every
\* user of that city was reached and every later city was fetched.
C3_SendFailureIsolated ==
    /\ Len(alert_logs) =
          Cardinality({k \in DOMAIN events : events[k].op = "log" /\ events[k].ok})
    /\ \A p \in Passes : \A k \in EvOf(p, "send") :
          ~events[k].ok =>
              /\ EvAt(p, "log", events[k].idx, events[k].user) = {}
              /\ CompletedNoStoreFailure(p) => RestProcessed(p, events[k].idx)

\* a pass is over in which SendAlert failed for a user, a later user of the
\* same city was reached and a later city was fetched
C3_Witness ==
    \E p \in Passes : \E k \in EvOf(p, "send") :
        /\ pc[p] = "done" /\ result[p] = "Ok"
        /\ ~events[k].ok
        /\ \E j \in DOMAIN events :
              /\ j > k /\ events[j].pass = p /\ events[j].op = "prefs"
              /\ events[j].idx = events[k].idx
        /\ events[k].idx < Len(cities[p])

(***************************************************************************)
(* C4. A user without a preferences row.                                   *)
(***************************************************************************)
\* C4: a user whose preferences row is missing gets no SendAlert attempt and
\* no LogAlert call at that city and no alert-log row at all; and in a pass
\* that no Store failure ended, every user of that city was reached and every
\* later city was fetched.
C4_MissingPrefsSkipped ==
    \A p \in Passes : \A k \in EvOf(p, "noprefs") :
        /\ EvAt(p, "send", events[k].idx, events[k].user) = {}
        /\ EvAt(p, "log", events[k].idx, events[k].user) = {}
        /\ \A n \in DOMAIN alert_logs : alert_logs[n].user_id # events[k].user
        /\ CompletedNoStoreFailure(p) => RestProcessed(p, events[k].idx)

\* a pass is over in which a user had no preferences row, another user of
\* the same city was emailed after it, and a later city was fetched
C4_Witness ==
    \E p \in Passes : \E k \in EvOf(p, "noprefs") :
        /\ pc[p] = "done" /\ result[p] = "Ok"
        /\ \E j \in EvOf(p, "send") : j > k /\ events[j].idx = events[k].idx
        /\ events[k].idx < Len(cities[p])


(***************************************************************************)
(* C5. Two cities, the fetch of one fails.                                 *)
(***************************************************************************)
\* the SMTP server accepted the alert of city i of pass p for user u
Accepted(p, i, u) ==
    \E n \in DOMAIN outbox :
        /\ outbox[n].kind = "alert"
        /\ outbox[n].to = users[u].email
        /\ outbox[n].city = cities[p][i].city
        /\ outbox[n].message = Evaluated(p, i, u)

\* user u is a user of city i whose preferences match its observation
Owed(p, i, u) ==
    u \in UsersOfEntry(p, i) /\ Evaluated(p, i, u) # None

RowsOfUser(u) == {n \in DOMAIN alert_logs : alert_logs[n].user_id = u}

\* C5: after a pass over two cities a and b that returned Ok, where the fetch
\* failed for a and succeeded for b: weather_data holds exactly the
\* observation fetched for b; the alert log holds exactly one row per user of
\* b whose preferences match that observation and whose email was accepted,
\* carrying the evaluated message; no Store or Mailer call was made for a.
C5_OneFailedOneFetched ==
    \A p \in Passes : \A a, b \in Entries(p) :
        ( /\ pc[p] = "done" /\ result[p] = "Ok"
          /\ Len(cities[p]) = 2
          /\ FetchFailed(p, a) /\ FetchOk(p, b) ) =>
            /\ weather_data = <<Observation(p, b)>>
            /\ \A u \in DOMAIN users :
                  IF Owed(p, b, u) /\ Accepted(p, b, u)
                  THEN \E n \in DOMAIN alert_logs :
                          /\ RowsOfUser(u) = {n}
                          /\ alert_logs[n] =
                               AlertLogRow(u, "temperature", Evaluated(p, b, u))
                  ELSE RowsOfUser(u) = {}
            /\ \A k \in DOMAIN events :
                  (events[k].pass = p /\ events[k].idx = a)
                      => events[k].op \in {"cities", "fetch", "sleep"}
            /\ \A n \in DOMAIN outbox : outbox[n].city = cities[p][b].city

\* such a pass is over; one user of b was emailed and logged, and for another
\* the email was not accepted
C5_Witness ==
    \E p \in Passes : \E a, b \in Entries(p) :
        /\ pc[p] = "done" /\ result[p] = "Ok"
        /\ Len(cities[p]) = 2
        /\ FetchFailed(p, a) /\ FetchOk(p, b)
        /\ \E u, v \in UsersOfEntry(p, b) :
              /\ Owed(p, b, u) /\ Accepted(p, b, u) /\ RowsOfUser(u) # {}
              /\ Owed(p, b, v) /\ ~Accepted(p, b, v)

(***************************************************************************)
(* C6. An alert-log row implies an accepted email.                         *)
(***************************************************************************)
SameRow(row) == {n \in DOMAIN alert_logs : alert_logs[n] = row}

AcceptedFor(row) ==
    {n \in DOMAIN outbox : /\ outbox[n].kind = "alert"
                           /\ outbox[n].to = users[row.user_id].email
                           /\ outbox[n].message = row.message}

\* C6: every alert-log row has its own alert email accepted by the SMTP
\* server for that user and message; LogAlert is called only after a
\* SendAlert for that user, city and message that returned Ok; and SendAlert
\* returned Ok no more often than the server accepted an alert.
C6_AlertLogImpliesAccepted ==
    /\ \A n \in DOMAIN alert_logs :
          Cardinality(SameRow(alert_logs[n]))
              <= Cardinality(AcceptedFor(alert_logs[n]))
    /\ \A k \in DOMAIN events :
          events[k].op = "log" =>
              \E j \in EvAt(events[k].pass, "send", events[k].idx, events[k].user) :
                  /\ j < k /\ events[j].ok
                  /\ events[k].ok => events[j].data = events[k].data
    /\ Cardinality({k \in DOMAIN events : events[k].op = "send" /\ events[k].ok})
          <= Cardinality({n \in DOMAIN outbox : outbox[n].kind = "alert"})

\* an alert was logged, and a SendAlert that failed left no row
C6_Witness ==
    /\ alert_logs # <<>>
    /\ \E k \in DOMAIN events :
          /\ events[k].op = "send" /\ ~events[k].ok
          /\ RowsOfUser(events[k].user) = {}

(***************************************************************************)
(* C10. The fan-out list.                                                  *)
(***************************************************************************)
\* C10: the list a pass got from ListDistinctUserCities is sorted by city
\* and holds no two entries of the same country whose city names differ only
\* in letter case.
C10_FanOutCaseDistinct ==
    \A p \in Passes :
        pc[p] # "idle" =>
            \A i, j \in Entries(p) :
                i < j =>
                    /\ ~StrLess(cities[p][j].city, cities[p][i].city)
                    /\ ~( /\ ToLower(cities[p][i].city) = ToLower(cities[p][j].city)
                          /\ cities[p][i].country = cities[p][j].country )


(***************************************************************************)
(* C7. One preferences row per user.                                       *)
(***************************************************************************)
\* C7: in every state, every row of users has exactly one row of
\* user_preferences.
C7_UserHasPreferences ==
    \A i \in DOMAIN users :
        Cardinality(get_user_preferences(user_preferences, i)) = 1

(***************************************************************************)
(* C8. Emails are unique whatever their letter case.                       *)
(***************************************************************************)
\* C8: no two rows of users hold emails that are equal when letter case is
\* ignored: a registration under an email that is already registered in
\* another casing creates no second user.
C8_CaseInsensitiveConflict ==
    \A i, j \in DOMAIN users :
        i # j => ToLower(users[i].email) # ToLower(users[j].email)

(***************************************************************************)
(* C9. Two registrations with one email at the same time.                  *)
(***************************************************************************)
\* C9: a registration that fails because its email is already in users,
\* also when the row arrived after the handler's own lookup, is answered
\* with Conflict (409) and with no other error kind; and no two rows of
\* users hold the same email.
C9_RaceLoserGetsConflict ==
    /\ \A r \in Requests :
          (rpc[r] = "done" /\ rerr[r].cause = "unique_violation") =>
              rerr[r].kind = "Conflict" /\ resp[r] = 409
    /\ \A i, j \in DOMAIN users : i # j => users[i].email # users[j].email

(***************************************************************************)
(* The latest call.  Every pass action appends one call to the record, so  *)
(* a property of the latest call that holds in every state holds of every  *)
(* call at the moment it was made.                                         *)
(***************************************************************************)
Calls == Len(events)

\* the calls made before the latest one by the same pass
EarlierOfPass == {k \in 1..(Calls - 1) : events[k].pass = events[Calls].pass}

\* the calls op of pass p at city i for user u that returned Ok before call k
Before(p, op, i, u, k) ==
    {j \in EvAt(p, op, i, u) : j < k /\ events[j].ok}

(***************************************************************************)
(* C11. Cities one after another, users one after another.                 *)
(***************************************************************************)
\* the loop body of pass p was carried through for user u at city i: the
\* preferences were looked up, a message that was evaluated was handed to
\* SendAlert, and an alert that was sent was logged
Handled(p, i, u) ==
    /\ Visited(p, i, u)
    /\ \A k \in EvAt(p, "prefs", i, u) :
          events[k].data # None =>
              \E s \in EvAt(p, "send", i, u) :
                  /\ k < s
                  /\ events[s].ok =>
                        \E g \in EvAt(p, "log", i, u) : s < g /\ events[g].ok

\* C11: within a pass the calls are made city by city in the order of the
\* list.  When a call is made, no earlier call of the pass was at a later
\* position of the list; when it is a fetch, no earlier call was at its
\* position, and for a position after the first the city before it was
\* fetched and, if that fetch succeeded, every user of that city has been
\* handled; and when it is a call for a user, the calls made since that
\* user's first call at this city were all for that user.
C11_CitiesThenUsersInOrder ==
    events # <<>> =>
        LET e == events[Calls] IN
        /\ \A k \in EarlierOfPass :
              /\ events[k].idx <= e.idx
              /\ e.op = "fetch" => events[k].idx < e.idx
        /\ (e.op = "fetch" /\ e.idx > 1) =>
              /\ Fetched(e.pass, e.idx - 1)
              /\ FetchOk(e.pass, e.idx - 1) =>
                    \A u \in UsersOfEntry(e.pass, e.idx - 1) :
                        Handled(e.pass, e.idx - 1, u)
        /\ e.user # 0 =>
              \A k \in EarlierOfPass :
                  (events[k].idx = e.idx /\ events[k].user = e.user) =>
                      \A l \in EarlierOfPass : k < l => events[l].user = e.user

\* the second city of a pass is being fetched after two users of the first
\* city were handled, one of them with an alert sent and logged
C11_Witness ==
    \E p \in Passes :
        /\ Fetched(p, 2) /\ FetchOk(p, 1)
        /\ \E u, v \in UsersOfEntry(p, 1) :
              /\ u # v
              /\ EvAt(p, "log", 1, u) # {}
              /\ Handled(p, 1, v)

(***************************************************************************)
(* C12. The order of the steps for one city.                               *)
(***************************************************************************)
\* C12: for each city of a pass the calls come in the order fetch, store,
\* list, then for each user preferences, send, log: a call is made only
\* after the call before it returned Ok at that city (for that user).  An
\* alert is handed to SendAlert only after the observation fetched for that
\* city was stored, it is the message evaluated for that user, and LogAlert
\* is called only after that user's SendAlert returned Ok, and logs the
\* message that was sent.
C12_StepsInFixedOrder ==
    events # <<>> =>
        LET k == Calls
            e == events[Calls]
        IN
        /\ e.op = "store" =>
              \E j \in Before(e.pass, "fetch", e.idx, 0, k) :
                  e.ok => e.data = events[j].data
        /\ e.op = "list" => Before(e.pass, "store", e.idx, 0, k) # {}
        /\ e.op \in {"prefs", "noprefs"} =>
              Before(e.pass, "list", e.idx, 0, k) # {}
        /\ e.op = "send" =>
              /\ \E j \in Before(e.pass, "store", e.idx, 0, k) :
                    /\ events[j].data = Observation(e.pass, e.idx)
                    /\ \E n \in DOMAIN weather_data :
                          weather_data[n] = events[j].data
              /\ \E j \in Before(e.pass, "prefs", e.idx, e.user, k) :
                    events[j].data = e.data /\ e.data # None
        /\ e.op = "log" =>
              \E j \in Before(e.pass, "send", e.idx, e.user, k) :
                  e.ok => events[j].data = e.data

\* an alert was sent and logged for a user of the second city of a pass
C12_Witness ==
    \E k \in DOMAIN events :
        /\ events[k].op = "log" /\ events[k].ok /\ events[k].idx = 2
        /\ Len(weather_data) = 2

(***************************************************************************)
(* C14. The precedence of the rules.                                       *)
(***************************************************************************)
TooHot(w, prefs) ==
    prefs.max_temp # NoTemp /\ w.temperature > prefs.max_temp[1] * 10

TooCold(w, prefs) ==
    prefs.min_temp # NoTemp /\ w.temperature < prefs.min_temp[1] * 10

Mentions(w, word) == Contains(ToLower(w.conditions), word)

Rainy(w, prefs) == prefs.alert_on_rain /\ Mentions(w, <<"r","a","i","n">>)

Snowy(w, prefs) == prefs.alert_on_snow /\ Mentions(w, <<"s","n","o","w">>)

Stormy(w, prefs) ==
    /\ prefs.alert_on_storm
    /\ \/ Mentions(w, <<"s","t","o","r","m">>)
       \/ Mentions(w, <<"t","h","u","n","d","e","r">>)

\* C14: the message evaluated for an observation and a preferences row is
\* the high-temperature message exactly when max_temp is set and the
\* temperature is strictly above it; the low-temperature message exactly
\* when that rule does not match, min_temp is set and the temperature is
\* strictly below it; the rain, snow and storm messages exactly when no
\* earlier rule matches, the flag is set and the lowercased category
\* contains the word ('storm' or 'thunder' for the storm rule); and none
\* exactly when no rule matches.  With max_temp 30 and alert_on_rain, 32.0
\* degrees and 'Rain' the message is the high-temperature one.
C14_RulesInPrecedence ==
    \A p \in Passes :
        pc[p] = "evaluated" =>
            LET w == weather[p]
                prefs == CHOOSE r \in user_preferences : TRUE
                m == alert_message[p]
                hot == TooHot(w, prefs)
                cold == ~hot /\ TooCold(w, prefs)
                rain == ~hot /\ ~cold /\ Rainy(w, prefs)
                snow == ~hot /\ ~cold /\ ~rain /\ Snowy(w, prefs)
                storm == ~hot /\ ~cold /\ ~rain /\ ~snow /\ Stormy(w, prefs)
            IN  /\ m.rule = "high" <=> hot
                /\ m.rule = "low" <=> cold
                /\ m.rule = "rain" <=> rain
                /\ m.rule = "snow" <=> snow
                /\ m.rule = "storm" <=> storm
                /\ m = None <=> ~(hot \/ cold \/ rain \/ snow \/ storm)
                /\ hot => m.temp = w.temperature /\ m.limit = prefs.max_temp[1]
                /\ cold => m.temp = w.temperature /\ m.limit = prefs.min_temp[1]
                /\ (rain \/ snow \/ storm) => m.conditions = w.conditions
                /\ ( /\ prefs.max_temp = Some(30) /\ prefs.alert_on_rain
                     /\ w.temperature = 320 /\ w.conditions = Rain )
                      => m.rule = "high"

\* max_temp 30 and alert_on_rain, 32.0 degrees and 'Rain' were evaluated:
\* both the high-temperature rule and the rain rule match
C14_Witness ==
    \E p \in Passes :
        /\ pc[p] = "evaluated"
        /\ \E prefs \in user_preferences :
              /\ prefs.max_temp = Some(30) /\ prefs.alert_on_rain
              /\ Rainy(weather[p], prefs)
        /\ weather[p].temperature = 320 /\ weather[p].conditions = Rain
        /\ alert_message[p].rule = "high"

(***************************************************************************)
(* C15. One alert at most for an observation and a user.                   *)
(***************************************************************************)
\* C15: for a city of a pass and a user, the preferences are evaluated at
\* most once against the observation of that city and SendAlert is
\* attempted at most once, with the one message that was evaluated, also
\* when the observation matches several rules of the user's preferences:
\* when SendAlert is called or the preferences are evaluated, the same call
\* was not made before by that pass at that city for that user.
C15_OneAlertPerObservation ==
    events # <<>> =>
        LET e == events[Calls] IN
        /\ e.op \in {"prefs", "send"} =>
              EvAt(e.pass, e.op, e.idx, e.user) = {Calls}
        /\ e.op = "send" => e.data = Evaluated(e.pass, e.idx, e.user)

\* a pass is over in which SendAlert was attempted for a user whose
\* preferences match the observation both by max_temp and by the rain flag
C15_Witness ==
    \E p \in Passes : \E i \in Entries(p) : \E u \in DOMAIN users :
        /\ pc[p] = "done"
        /\ EvAt(p, "send", i, u) # {}
        /\ \E prefs \in get_user_preferences(user_preferences, u) :
              TooHot(Observation(p, i), prefs) /\ Rainy(Observation(p, i), prefs)

(***************************************************************************)
(* C16. No rule matches: no email, no row.                                 *)
(***************************************************************************)
\* the evaluations made for user u that gave message m
EvaluatedTo(u, m) ==
    {k \in DOMAIN events : /\ events[k].op = "prefs" /\ events[k].ok
                           /\ events[k].user = u /\ events[k].data = m}

\* C16: when the evaluation for a user at a city of a pass gave none,
\* SendAlert and LogAlert are not called for that user at that city: when
\* either is called, no evaluation for that user at that city gave none.
\* And the newest alert-log row and the newest accepted alert email carry a
\* message, not none, that an evaluation for their user gave.
C16_NoneMeansNoEmailNoRow ==
    /\ events # <<>> =>
          LET e == events[Calls] IN
          e.op \in {"send", "log"} =>
              \A k \in EvAt(e.pass, "prefs", e.idx, e.user) :
                  events[k].data # None
    /\ alert_logs # <<>> =>
          LET row == alert_logs[Len(alert_logs)] IN
          row.message # None /\ EvaluatedTo(row.user_id, row.message) # {}
    /\ outbox # <<>> =>
          LET m == outbox[Len(outbox)] IN
          m.kind = "alert" =>
              /\ m.message # None
              /\ \E u \in DOMAIN users :
                    users[u].email = m.to /\ EvaluatedTo(u, m.message) # {}

\* a pass is over in which a user with alert_on_rain was evaluated against
\* 20.0 degrees and 'Clear', and another user of that city was alerted
C16_Witness ==
    \E p \in Passes : \E k \in EvOf(p, "prefs") :
        /\ pc[p] = "done" /\ result[p] = "Ok"
        /\ events[k].ok /\ events[k].data = None
        /\ \E prefs \in get_user_preferences(user_preferences, events[k].user) :
              prefs.alert_on_rain
        /\ Observation(p, events[k].idx).temperature = 200
        /\ Observation(p, events[k].idx).conditions = Clear
        /\ \E n \in DOMAIN alert_logs : alert_logs[n].user_id # events[k].user

(***************************************************************************)
(* C17. A preferences update changes the fields it carries, no others.     *)
(***************************************************************************)
\* a bound after the update: the request's when it carries one, else the old
BoundFollows(field, old, new) ==
    IF field # Absent THEN new = field ELSE new = old

\* a flag after the update: the request's when it carries one, else the old
FlagFollows(field, old, new) ==
    IF field # Absent THEN new = field[1] ELSE new = old

\* C17: a preferences update that is answered with 200 leaves in the row of
\* the user it names, for each field, the value of the request when the
\* request carries the field and the stored value when it does not; the
\* rows of all other users, and all other tables, are as before.
C17_PartialUpdateFrame ==
    [][ \A r \in Requests :
          (rpc[r] = "update" /\ rpc'[r] = "done" /\ resp'[r] = 200) =>
              /\ \A old \in user_preferences :
                    IF old.user_id # ruser[r]
                    THEN old \in user_preferences'
                    ELSE \E new \in user_preferences' :
                            /\ new.user_id = old.user_id
                            /\ BoundFollows(rreq[r].min_temp, old.min_temp, new.min_temp)
                            /\ BoundFollows(rreq[r].max_temp, old.max_temp, new.max_temp)
                            /\ FlagFollows(rreq[r].alert_on_rain,
                                           old.alert_on_rain, new.alert_on_rain)
                            /\ FlagFollows(rreq[r].alert_on_snow,
                                           old.alert_on_snow, new.alert_on_snow)
                            /\ FlagFollows(rreq[r].alert_on_storm,
                                           old.alert_on_storm, new.alert_on_storm)
              /\ Cardinality(user_preferences') = Cardinality(user_preferences)
              /\ UNCHANGED <<users, weather_data, alert_logs>>
      ]_vars

\* a request carrying only alert_on_snow was answered with 200 for a user
\* whose row held min_temp 5, max_temp 30 and alert_on_rain: the row holds
\* all four, and the row of another user is still the default one
C17_Witness ==
    \E r \in Requests :
        /\ rpc[r] = "done" /\ resp[r] = 200
        /\ rreq[r] = Patch(Absent, Absent, Absent, <<TRUE>>, Absent)
        /\ [DefaultPreferences(ruser[r]) EXCEPT
               !.min_temp = Some(5), !.max_temp = Some(30),
               !.alert_on_rain = TRUE, !.alert_on_snow = TRUE] \in user_preferences
        /\ \E u \in DOMAIN users :
              u # ruser[r] /\ DefaultPreferences(u) \in user_preferences

(***************************************************************************)
(* C18. The bounds of a stored preferences row.                            *)
(***************************************************************************)
\* C18: every preferences row that holds both bounds has max_temp at or
\* above min_temp.
C18_StoredBoundsOrdered ==
    \A row \in user_preferences :
        (row.min_temp # NoTemp /\ row.max_temp # NoTemp)
            => row.max_temp[1] >= row.min_temp[1]

(***************************************************************************)
(* C19. A preferences update for an id without a row.                      *)
(***************************************************************************)
\* C19: a valid preferences update that names an id without a preferences
\* row, and that no connection failure cut short, is answered with NotFound
\* and 404.
C19_UnknownUserNotFound ==
    \A r \in Requests :
        ( /\ rpc[r] = "done"
          /\ rerr[r].kind # "Validation" /\ rerr[r].cause # "io"
          /\ get_user_preferences(user_preferences, ruser[r]) = {} )
            => (rerr[r].kind = "NotFound" /\ resp[r] = 404)

(***************************************************************************)
(* C20. The manual trigger answers before the pass.                        *)
(***************************************************************************)
\* C20: the handler of POST /api/weather/fetch has been called exactly when
\* the pass was spawned; the pass makes its first call only after the
\* response was produced; and the response is 202 without an error, whatever
\* the pass has returned or will return.
C20_AcceptedBeforePass ==
    /\ pc["manual"] = "unspawned" <=> \A r \in Requests : rpc[r] = "idle"
    /\ pc["manual"] \notin {"unspawned", "idle"} =>
          \E r \in Requests : rpc[r] = "done"
    /\ \A r \in Requests :
          rpc[r] = "done" => (resp[r] = 202 /\ rerr[r] = NoError)

\* the spawned pass was ended by a failed Store call after the endpoint
\* answered 202
C20_Witness ==
    /\ pc["manual"] = "done" /\ result["manual"] = "Database"
    /\ \E r \in Requests : rpc[r] = "done" /\ resp[r] = 202

(***************************************************************************)
(* C13. Two passes at once.                                                *)
(***************************************************************************)
StoreCalls == SelectSeq(events, LAMBDA e : e.op = "store" /\ e.ok)

LogCalls == SelectSeq(events, LAMBDA e : e.op = "log" /\ e.ok)

\* C13: with the pass of the cron job and the pass of the manual trigger
\* interleaved, each pass stores an observation at most once for an entry
\* of its list and calls SendAlert at most once for a user at an entry,
\* with the message evaluated from its own observation; weather_data holds
\* one row for each successful store of either pass, in the order of the
\* calls, each the observation that pass fetched for that entry, and
\* alert_logs one row for each successful LogAlert of either pass, with the
\* user and message of the call; and every alert-log row has its accepted
\* email.
C13_TwoPassesOnlyDuplicate ==
    /\ events # <<>> =>
          LET e == events[Calls] IN
          /\ e.op = "store" => EvAt(e.pass, "store", e.idx, 0) = {Calls}
          /\ e.op = "send" =>
                /\ EvAt(e.pass, "send", e.idx, e.user) = {Calls}
                /\ e.data = check_alert_conditions(
                                Observation(e.pass, e.idx),
                                CHOOSE r \in user_preferences : r.user_id = e.user)
    /\ Len(weather_data) = Len(StoreCalls)
    /\ \A n \in DOMAIN weather_data :
          /\ weather_data[n] = StoreCalls[n].data
          /\ weather_data[n] = Observation(StoreCalls[n].pass, StoreCalls[n].idx)
    /\ Len(alert_logs) = Len(LogCalls)
    /\ \A n \in DOMAIN alert_logs :
          alert_logs[n] =
              AlertLogRow(LogCalls[n].user, "temperature", LogCalls[n].data)
    /\ C6_AlertLogImpliesAccepted

\* both passes returned Ok after each stored an observation and logged an
\* alert for the same user, and the manual pass made a call between two
\* calls of the cron pass
C13_Witness ==
    /\ \A p \in Passes : pc[p] = "done" /\ result[p] = "Ok"
    /\ Len(weather_data) = 2 /\ Len(alert_logs) = 2
    /\ \E k \in DOMAIN events :
          /\ k + 2 <= Calls
          /\ events[k].pass = "cron" /\ events[k + 1].pass = "manual"
          /\ events[k + 2].pass = "cron"

(***************************************************************************)
(* C21. The envelope of a response.                                        *)
(***************************************************************************)
\* C21: a response that is not an error response (no AppError, a status
\* below 400) carries the envelope with success = true, and the envelope
\* with success = false is carried only by error responses.
C21_SuccessEnvelope ==
    \A r \in Requests :
        rpc[r] = "done" =>
            (rbody[r].success <=> (rerr[r] = NoError /\ resp[r] < 400))

(***************************************************************************)
(* C22. The welcome email and the registration.                            *)
(***************************************************************************)
\* C22: a registration is answered with 201 exactly when create_user
\* returned the new user and the welcome email was handed to its task; from
\* then on, with the email in flight, accepted or failed, the response is
\* 201 with the success envelope and the user is in the table under the
\* email of the request.
C22_WelcomeFailureNotFatal ==
    \A r \in Requests :
        /\ welcome[r] # "none" <=> (rpc[r] = "done" /\ resp[r] = 201)
        /\ welcome[r] \in {"spawned", "sent", "failed"} =>
              /\ rerr[r] = NoError /\ rbody[r] = ApiResponseSuccess
              /\ ruser[r] \in DOMAIN users
              /\ users[ruser[r]].email = rreq[r].email

\* the welcome email of a registration was not sent; that of another was
C22_Witness ==
    \E r, q \in Requests :
        /\ welcome[r] = "failed" /\ resp[r] = 201
        /\ welcome[q] = "sent" /\ resp[q] = 201

(***************************************************************************)
(* C23. One fetch for each entry of the list.                              *)
(***************************************************************************)
\* C23: when a fetch is made, none was made before by that pass for that
\* entry of its list; and a pass that returned Ok has made exactly one
\* fetch for each entry, as many fetches as the list has entries, whether
\* they succeeded or failed.
C23_FetchOncePerEntry ==
    /\ events # <<>> =>
          LET e == events[Calls] IN
          e.op = "fetch" => EvAt(e.pass, "fetch", e.idx, 0) = {Calls}
    /\ \A p \in Passes :
          (pc[p] = "done" /\ result[p] = "Ok") =>
              /\ \A i \in Entries(p) : Cardinality(EvAt(p, "fetch", i, 0)) = 1
              /\ Cardinality(EvOf(p, "fetch")) = Len(cities[p])

\* a pass over two entries returned Ok; one fetch failed, the other did not
C23_Witness ==
    \E p \in Passes :
        /\ pc[p] = "done" /\ result[p] = "Ok" /\ Len(cities[p]) = 2
        /\ \E a, b \in Entries(p) : FetchFailed(p, a) /\ FetchOk(p, b)

(***************************************************************************)
(* C24. A sleep between two cities.                                        *)
(***************************************************************************)
\* the call the pass of the latest call made just before it (0: none)
PreviousOfPass ==
    IF EarlierOfPass = {} THEN 0
    ELSE CHOOSE k \in EarlierOfPass : \A l \in EarlierOfPass : l <= k

\* C24: when a fetch is made, the call that pass made just before it is the
\* listing of the cities, for the first entry, or the sleep at the entry
\* before, whatever happened at that entry.
C24_SleepBetweenCities ==
    events # <<>> =>
        LET e == events[Calls] IN
        e.op = "fetch" =>
            /\ PreviousOfPass # 0
            /\ IF e.idx = 1
               THEN events[PreviousOfPass].op = "cities"
               ELSE /\ events[PreviousOfPass].op = "sleep"
                    /\ events[PreviousOfPass].idx = e.idx - 1

\* the second city is being fetched after a failed send at the first
C24_Witness ==
    \E p \in Passes :
        /\ Fetched(p, 2)
        /\ \E k \in EvOf(p, "send") : events[k].idx = 1 /\ ~events[k].ok

(***************************************************************************)
(* C26. What a pass returns.                                               *)
(***************************************************************************)
StoreOps == {"cities", "store", "list", "prefs", "noprefs", "log"}

\* a Store call of pass p failed
StoreFailed(p) ==
    \E k \in DOMAIN events :
        events[k].pass = p /\ events[k].op \in StoreOps /\ ~events[k].ok

\* C26: a pass that is over returned Err(Database) when one of its Store
\* calls failed and Ok when none did, however many fetches and sends
\* failed.
C26_OnlyStoreFailuresPropagate ==
    \A p \in Passes :
        pc[p] = "done" =>
            /\ result[p] \in {"Ok", "Database"}
            /\ result[p] = "Database" <=> StoreFailed(p)

\* a pass returned Ok in which a fetch failed and a send failed
C26_Witness ==
    \E p \in Passes :
        /\ pc[p] = "done" /\ result[p] = "Ok"
        /\ \E i \in Entries(p) : FetchFailed(p, i)
        /\ \E k \in EvOf(p, "send") : ~events[k].ok

AppErrorKinds ==
    {"Database", "Scheduler", "WeatherApi", "Email", "Config",
     "NotFound", "Conflict", "Validation", "Internal", "Io"}

\* the payloads the variants carry
ErrorMessages == {"", "RowNotFound"}

AppErrors == {AppError(k, c) : k \in AppErrorKinds, c \in ErrorMessages}

\* faulty variant: the default a ResponseError has when it is not overridden
status_code_default(err) == 500

\* AppError::status_code
status_code(err) ==
    CASE err.kind = "NotFound"   -> 404
      [] err.kind = "Conflict"   -> 409
      [] err.kind = "Validation" -> 400
      [] OTHER                   -> 500

\* every request slot holds an error a handler returned
InitErrors ==
    /\ users = <<>>
    /\ user_preferences = {}
    /\ weather_data = <<>>
    /\ alert_logs = <<>>
    /\ InitPasses
    /\ rpc = [r \in Requests |-> "idle"]
    /\ rreq = [r \in Requests |-> NULL]
    /\ ruser = [r \in Requests |-> 0]
    /\ resp = [r \in Requests |-> 0]
    /\ rerr \in [Requests -> AppErrors]
    /\ rbody = [r \in Requests |-> NULL]
    /\ welcome = [r \in Requests |-> "none"]
    /\ outbox = <<>>
    /\ events = <<>>

\* the framework turns the error into a response: err.error_response()
ErrorResponse(r) ==
    /\ rpc[r] = "idle"
    /\ Fail(r, rerr[r])
    /\ UNCHANGED <<dbVars, passVars, rreq, ruser, welcome, outbox, events>>

\* err.status_code() on the same error
StatusCode(r) ==
    /\ rpc[r] = "idle"
    /\ rpc' = [rpc EXCEPT ![r] = "status_code"]
    /\ resp' = [resp EXCEPT ![r] = status_code(rerr[r])]
    /\ UNCHANGED <<dbVars, passVars, rreq, ruser, rerr, rbody, welcome,
                   outbox, events>>

NextErrors == \E r \in Requests : ErrorResponse(r) \/ StatusCode(r)

SpecErrors == InitErrors /\ [][NextErrors]_vars

(***************************************************************************)
(* C27. The error-to-status mapping.                                       *)
(***************************************************************************)
FixedStatus(kind) ==
    IF kind = "NotFound" THEN 404
    ELSE IF kind = "Conflict" THEN 409
    ELSE IF kind = "Validation" THEN 400
    ELSE IF kind \in {"Database", "Scheduler", "WeatherApi", "Email",
                      "Config", "Internal", "Io"} THEN 500
    ELSE 0

\* C27: whichever of error_response and status_code was applied to an error,
\* the status is 404 for NotFound, 409 for Conflict, 400 for Validation and
\* 500 for every other variant; the two methods applied to the same error
\* give the same status.
C27_ErrorStatusFixed ==
    /\ \A r \in Requests :
          rpc[r] # "idle" => resp[r] = FixedStatus(rerr[r].kind)
    /\ \A r1, r2 \in Requests :
          (rpc[r1] = "done" /\ rpc[r2] = "status_code" /\ rerr[r1] = rerr[r2])
              => resp[r1] = resp[r2]

\* the same Conflict error went through both methods and came out as 409
C27_Witness ==
    \E r1, r2 \in Requests :
        /\ rpc[r1] = "done" /\ rpc[r2] = "status_code"
        /\ rerr[r1] = rerr[r2] /\ rerr[r1].kind = "Conflict"
        /\ resp[r1] = 409 /\ resp[r2] = 409

(***************************************************************************)
(* SpecFetch: one pass over one city whose fetch receives an answer fixed  *)
(* beforehand, among them answers with no condition and with several.      *)
(***************************************************************************)
\* the condition arrays of the answers: none, one, several
ConditionArrays ==
    LET c(main, description) == [main |-> main, description |-> description]
    IN  { <<>>,
          << c(Clear, <<"s","k","y">>) >>,
          << c(Rain, <<"w","e","t">>) >>,
          << c(Clear, <<"s","k","y">>), c(Rain, <<"w","e","t">>) >>,
          << c(Snow, <<"i","c","e">>), c(Clear, <<"s","k","y">>) >>,
          << c(Thunderstorm, <<"l","o","u","d">>) >> }

\* what the provider may answer to the request for city c
Answers(c) ==
    { [kind |-> "transport"], [kind |-> "status"], [kind |-> "parse"] }
    \cup { [kind |-> "ok",
            response |-> [name |-> c.city, country |-> c.country,
                          temp |-> t, weather |-> w]] :
            t \in {200, 320}, w \in ConditionArrays }

\* every categorical flag set, no bound
AllFlags(user_id) ==
    [DefaultPreferences(user_id) EXCEPT !.alert_on_rain = TRUE,
                                        !.alert_on_snow = TRUE,
                                        !.alert_on_storm = TRUE]

\* the pass is about to fetch the only city; its user has preferences
InitFetch ==
    /\ users = << NewUserRow(1, [email |-> EmailA, city |-> Paris, country |-> FR]) >>
    /\ user_preferences \in {{AllFlags(1)}, {HotOrRain(1)}}
    /\ weather_data = <<>>
    /\ alert_logs = <<>>
    /\ pc = [p \in Passes |-> IF p = "cron" THEN "fetch" ELSE "idle"]
    /\ cities = [p \in Passes |->
                    IF p = "cron" THEN << [city |-> Paris, country |-> FR] >>
                    ELSE <<>>]
    /\ idx = [p \in Passes |-> IF p = "cron" THEN 1 ELSE 0]
    /\ weather = [p \in Passes |-> NULL]
    /\ users_q = [p \in Passes |-> <<>>]
    /\ alert_message = [p \in Passes |-> None]
    /\ result = [p \in Passes |-> "none"]
    /\ \E a \in Answers([city |-> Paris, country |-> FR]) :
          in_flight = [p \in Passes |-> IF p = "cron" THEN a ELSE NoAnswer]
    /\ InitRequests
    /\ outbox = <<>>
    /\ events = <<>>

\* weather_client.get_weather(..).await receiving the answer in flight
FetchAnswered(p) ==
    /\ pc[p] = "fetch"
    /\ in_flight[p] # NoAnswer
    /\ FetchMatch(p, get_weather(in_flight[p]))
    /\ UNCHANGED <<dbVars, cities, idx, users_q, alert_message, result,
                   in_flight, regVars, outbox>>

NextFetch ==
    \/ FetchAnswered("cron")
    \/ StoreWeather("cron")
    \/ ListUsers("cron")
    \/ GetPrefs("cron")
    \/ SendAlert("cron")
    \/ LogAlert("cron")
    \/ Sleep("cron")

SpecFetch == InitFetch /\ [][NextFetch]_vars

(***************************************************************************)
(* C28. What a fetch yields.                                               *)
(***************************************************************************)
\* C28: a fetch whose request failed, whose status was not 2xx or whose
\* body did not parse returns an error and leaves no observation; a fetch
\* that succeeds returns the category and the description of the first
\* element of the condition array, or Unknown and No description when the
\* array is empty; an observation of category Unknown fires none of the
\* rain, snow and storm rules.
C28_FetchYield ==
    LET a == in_flight["cron"]
        e == events[1]
    IN  events # <<>> =>
          /\ e.op = "fetch"
          /\ a.kind # "ok" =>
                /\ ~e.ok /\ e.data = None
                /\ weather_data = <<>>
                /\ \A n \in DOMAIN events : events[n].op # "store"
          /\ a.kind = "ok" =>
                /\ e.ok /\ weather["cron"] = e.data
                /\ e.data.conditions =
                      IF a.response.weather = <<>> THEN Unknown
                      ELSE a.response.weather[1].main
                /\ e.data.description =
                      IF a.response.weather = <<>> THEN NoDescription
                      ELSE a.response.weather[1].description
                /\ e.data.conditions = Unknown =>
                      alert_message["cron"].rule \notin {"rain", "snow", "storm"}

\* the answer had no condition: the observation stored says Unknown, the
\* user with every flag set was evaluated and the pass ended without a mail
C28_Witness ==
    /\ in_flight["cron"].kind = "ok"
    /\ in_flight["cron"].response.weather = <<>>
    /\ Len(weather_data) = 1 /\ weather_data[1].conditions = Unknown
    /\ weather_data[1].description = NoDescription
    /\ user_preferences = {AllFlags(1)}
    /\ \E n \in DOMAIN events : events[n].op = "prefs" /\ events[n].ok
    /\ result["cron"] = "Ok" /\ outbox = <<>>

(***************************************************************************)
(* C29. Observations and alert-log rows are write-once; a pass leaves the  *)
(* users and their preferences alone.                                      *)
(***************************************************************************)
\* rows 1..Len(old) of the table are the rows of old
KeepsRows(old, new) ==
    /\ Len(new) >= Len(old)
    /\ \A n \in DOMAIN old : new[n] = old[n]

\* C29: no step of a pass, a registration or a preference update removes
\* or changes a row of weather_data or alert_logs that was written, and a
\* step of a pass leaves the tables users and user_preferences as they are.
C29_WriteOnce ==
    [][ /\ KeepsRows(weather_data, weather_data')
        /\ KeepsRows(alert_logs, alert_logs')
        /\ events' # events => UNCHANGED <<users, user_preferences>> ]_vars

\* a pass has stored the observations of two cities and logged an alert
\* while a registration was answered with 201
C29_Witness ==
    /\ Len(weather_data) = 2 /\ Len(alert_logs) = 1
    /\ Len(users) = 2
    /\ \E r \in Served : rpc[r] = "done" /\ resp[r] = 201
    /\ result["cron"] = "Ok"

(***************************************************************************)
(* C30. The country of a stored user is in upper case.                     *)
(***************************************************************************)
IsUpperCaseOf(stored, submitted) ==
    /\ Len(stored) = Len(submitted)
    /\ \A i \in DOMAIN stored :
          /\ \E k \in DOMAIN UpperChars : UpperChars[k] = stored[i]
          /\ LowerChar(stored[i]) = LowerChar(submitted[i])

\* C30: every row of users was stored by a registration, and its country is
\* the two letters that registration submitted, in upper case, whether
\* they were submitted in upper, lower or mixed case.
C30_CountryStoredUpperCase ==
    \A i \in DOMAIN users :
        \E r \in Requests :
            /\ ruser[r] = i
            /\ Len(users[i].country) = 2
            /\ IsUpperCaseOf(users[i].country, rreq[r].country)

\* registrations submitting "fr" and "uS" were answered 201 and their rows
\* say FR and US
C30_Witness ==
    \E r1, r2 \in Requests :
        /\ rpc[r1] = "done" /\ resp[r1] = 201
        /\ rpc[r2] = "done" /\ resp[r2] = 201
        /\ rreq[r1].country = frLc /\ users[ruser[r1]].country = FR
        /\ rreq[r2].country = usMixed /\ users[ruser[r2]].country = US

(***************************************************************************)
(* C31. A user is evaluated once in a pass.                                *)
(***************************************************************************)
\* C31: the latest call of a pass, when it evaluated a user, is the first
\* evaluation of that user in the pass, and when it was an alert email the
\* Mailer accepted, it is the first one the pass sent to that user.
C31_EvaluatedOncePerPass ==
    Calls > 0 =>
        LET e == events[Calls] IN
        (e.op \in {"prefs", "send"} /\ e.ok) =>
            \A k \in EarlierOfPass :
                ~( /\ events[k].op = e.op
                   /\ events[k].ok
                   /\ events[k].user = e.user )

(***************************************************************************)
(* SpecCountries: one pass over a table in which one city name is          *)
(* registered with two countries.                                          *)
(***************************************************************************)
\* two registrations were accepted: Paris in FR and Paris in US; each user
\* has the default preferences or has set a bound and the rain flag
InitCountries ==
    /\ users = << NewUserRow(1, [email |-> SlotEmail(1), city |-> Paris,
                                 country |-> FR]),
                  NewUserRow(2, [email |-> SlotEmail(2), city |-> Paris,
                                 country |-> US]) >>
    /\ \E k1, k2 \in {2, 3} :
          user_preferences = PreferenceKinds(1)[k1] \cup PreferenceKinds(2)[k2]
    /\ weather_data = <<>>
    /\ alert_logs = <<>>
    /\ InitPasses
    /\ InitRequests
    /\ outbox = <<>>
    /\ events = <<>>

SpecCountries == InitCountries /\ [][NextPipeline]_vars

(***************************************************************************)
(* C32. A user is evaluated against the observation of their own pair.     *)
(***************************************************************************)
\* C32: the latest call of a pass, when it evaluated a user or sent them an
\* alert, was made at a fan-out entry whose city is the user's city, letter
\* case apart, and whose country is the user's country.
C32_OwnCityAndCountry ==
    Calls > 0 =>
        LET e == events[Calls]
            entry == cities[e.pass][e.idx]
        IN  (e.op \in {"prefs", "send"} /\ e.ok) =>
                /\ ToLower(users[e.user].city) = ToLower(entry.city)
                /\ users[e.user].country = entry.country

(***************************************************************************)
(* C33. The observation is found under the name the users registered.      *)
(***************************************************************************)
\* C33: when the latest call of a pass stored the observation fetched for a
\* fan-out entry, the latest observation looked up by the city of the entry,
\* and by the city of every user of the entry in the casing they registered,
\* is the observation just stored.
C33_StoredUnderRequestedName ==
    Calls > 0 =>
        LET e == events[Calls]
            entry == cities[e.pass][e.idx]
        IN  (e.op = "store" /\ e.ok) =>
                /\ get_latest_weather(weather_data, entry.city) = {e.data}
                /\ \A u \in get_users_by_city(users, entry.city) :
                      get_latest_weather(weather_data, users[u].city) = {e.data}

(***************************************************************************)
(* C34. A successful pass has logged every email it got accepted.          *)
(***************************************************************************)
\* the alert emails accepted for the recipient and with the message of
\* message n of the outbox
EmailsLike(n) ==
    {k \in DOMAIN outbox : /\ outbox[k].kind = "alert"
                           /\ outbox[k].to = outbox[n].to
                           /\ outbox[k].message = outbox[n].message}

\* the alert-log rows of that recipient with that message
RowsLike(n) ==
    {k \in DOMAIN alert_logs :
        /\ users[alert_logs[k].user_id].email = outbox[n].to
        /\ alert_logs[k].message = outbox[n].message}

\* C34: when the pass has returned success, the alert emails the Mailer
\* accepted and the alert-log rows match one to one: for every accepted
\* email there are as many rows of its user and message as there are
\* accepted emails to that user with that message, so none is unlogged.
C34_AcceptedEmailsLogged ==
    (pc["cron"] = "done" /\ result["cron"] = "Ok") =>
        \A n \in DOMAIN outbox :
            outbox[n].kind = "alert" =>
                Cardinality(RowsLike(n)) = Cardinality(EmailsLike(n))

\* a pass returned success after two alert emails to different users were
\* accepted and logged, and a third send was not accepted
C34_Witness ==
    /\ pc["cron"] = "done" /\ result["cron"] = "Ok"
    /\ \E n, k \in DOMAIN outbox :
          /\ outbox[n].kind = "alert" /\ outbox[k].kind = "alert"
          /\ outbox[n].to # outbox[k].to
    /\ Len(alert_logs) = Len(outbox)
    /\ \E j \in DOMAIN events : events[j].op = "send" /\ ~events[j].ok

(***************************************************************************)
(* C35. Default preferences raise no alert.                                *)
(***************************************************************************)
\* the preferences of user u are the row registration created
HasDefaults(u) == DefaultPreferences(u) \in user_preferences

\* C35: a user whose preferences are the registration defaults has no alert
\* email in the outbox and no row in alert_logs, and every evaluation of
\* that user came out as no alert.
C35_DefaultsNeverAlert ==
    \A u \in DOMAIN users :
        HasDefaults(u) =>
            /\ \A n \in DOMAIN outbox :
                  outbox[n].kind = "alert" => outbox[n].to # users[u].email
            /\ RowsOfUser(u) = {}
            /\ (Calls > 0 /\ events[Calls].user = u) =>
                  /\ events[Calls].op \in {"prefs", "noprefs"}
                  /\ events[Calls].data = None

\* in a city where it rained at 32 degrees a user with the defaults was
\* evaluated and got nothing, while a user with a bound was alerted
C35_Witness ==
    \E u, v \in DOMAIN users :
        /\ HasDefaults(u) /\ ~HasDefaults(v)
        /\ ToLower(users[u].city) = ToLower(users[v].city)
        /\ \E k \in DOMAIN events :
              /\ events[k].op = "prefs" /\ events[k].ok /\ events[k].user = u
              /\ weather_data[Len(weather_data)].temperature = 320
        /\ RowsOfUser(v) # {} /\ RowsOfUser(u) = {}
        /\ pc["cron"] = "done" /\ result["cron"] = "Ok"

(***************************************************************************)
(* SpecCron: the scheduler fires the job at every tick; the callback runs  *)
(* fetch_and_alert, logs what it returned and ends.                        *)
(***************************************************************************)
\* faulty variant: a pass that returned an error stops the scheduler
ErrorStopsScheduler(res) == IF res = "Ok" THEN "idle" ELSE "stopped"

\* both arms of the match in the callback only log: the job waits for the
\* next tick
AfterCallback(res) == "idle"

\* the ticks at which the job was fired so far
TicksFired == Cardinality({k \in DOMAIN events : events[k].op = "cities"})

\* a tick of "0 0 */2 * * *": the scheduler runs the callback, which calls
\* fetch_and_alert
Tick(p) ==
    /\ TicksFired < MaxTicks
    /\ PassStart(p)

\* match fetch_and_alert(..).await { Ok(_) => info!(..), Err(e) => error!(..) }
CronReturn(p) ==
    /\ pc[p] = "done"
    /\ pc' = [pc EXCEPT ![p] = AfterCallback(result[p])]
    /\ cities' = [cities EXCEPT ![p] = <<>>]
    /\ idx' = [idx EXCEPT ![p] = 0]
    /\ weather' = [weather EXCEPT ![p] = NULL]
    /\ users_q' = [users_q EXCEPT ![p] = <<>>]
    /\ alert_message' = [alert_message EXCEPT ![p] = None]
    /\ result' = [result EXCEPT ![p] = "none"]
    /\ UNCHANGED <<dbVars, in_flight, regVars, outbox, events>>

NextCron ==
    \/ Tick("cron")
    \/ Fetch("cron")
    \/ StoreWeather("cron")
    \/ ListUsers("cron")
    \/ GetPrefs("cron")
    \/ SendAlert("cron")
    \/ LogAlert("cron")
    \/ Sleep("cron")
    \/ CronReturn("cron")

SpecCron == InitTrigger /\ [][NextCron]_vars

AnsweredWith(r, s) == rpc[r] # "done" /\ rpc'[r] = "done" /\ resp'[r] = s

\* C37: the step that answers a registration with 400 or 409 leaves users,
\* user_preferences and the outbox as they are, and the request has
\* inserted no row and spawned no welcome email before; a 400 is the answer
\* of the first step of the handler, before any Store call.
C37_RejectedRegistrationWritesNothing ==
    [][ \A r \in Requests :
          (AnsweredWith(r, 400) \/ AnsweredWith(r, 409)) =>
              /\ UNCHANGED <<users, user_preferences, outbox>>
              /\ ruser'[r] = 0
              /\ welcome'[r] = "none"
              /\ AnsweredWith(r, 400) => rpc[r] = "idle" ]_vars

\* one registration was answered 201 and the other, with the same email,
\* 409: one user, one preferences row, no welcome task for the second
C37_Witness ==
    \E r1, r2 \in Requests :
        /\ rpc[r1] = "done" /\ resp[r1] = 201
        /\ rpc[r2] = "done" /\ resp[r2] = 409
        /\ rreq[r1].email = rreq[r2].email
        /\ Len(users) = 1 /\ Cardinality(user_preferences) = 1
        /\ ruser[r2] = 0 /\ welcome[r2] = "none"

=============================================================================
